---------------------------- MODULE Spec2Model ----------------------------
(***************************************************************************)
(* A model of gnss-tec: the GLONASS frequency-channel table (glo.py), the  *)
(* TEC record (tec.py, gnss.py), the RINEX observation decoders (rinex.py),*)
(* their factory (__init__.py) and the epoch check (dtutils.py).           *)
(*                                                                         *)
(* The specifications share the variables below; each one drives one part *)
(* of the program and keeps the other parts idle:                          *)
(*   SpecFetch  fetch_slot_freq_num on tables and queries                  *)
(*   SpecTec    a Tec record and its derived properties                    *)
(*   SpecNav    collect_freq_nums scanning a navigation stream             *)
(*   Spec       ObsFileV2.next_tec / ObsFileV3.next_tec reading a stream   *)
(*   SpecLive   Spec with the records pulled until the decoder stops       *)
(*   SpecResolve  the index resolvers of the decoders on header catalogs   *)
(*   SpecOpen   rnx and the constructors reading a header                  *)
(*   SpecEpoch  validate_epoch on epoch lists                              *)
(*                                                                         *)
(* Conventions.  Python's None is the empty tuple <<>>, and an optional    *)
(* string (an exception's name, say) is a one-element tuple.  A datetime   *)
(* is a natural number of ticks and its calendar date is the tick count    *)
(* divided by DayLen (in SpecEpoch, which is about the calendar, it is the *)
(* record of its fields).  An observation code is a tuple: <<"L", 1>> is the v2   *)
(* code L1 and <<"L", 1, "C">> the v3 code L1C.                            *)
(***************************************************************************)
EXTENDS Integers, Sequences, FiniteSets, TLC

VARIABLES
    \* fetch_slot_freq_num: the table, the last call's arguments and outcome
    freq_nums, fetch_in, fetch_out,
    \* a Tec record (None while no record exists)
    tec,
    \* collect_freq_nums: where the scan stands, the version and type read,
    \* the messages yielded so far (in stream order), the per-slot dict
    \* channel -> first timestamp (insertion ordered), the table returned,
    \* the exception raised, whether the stream is exhausted, warnings
    \* issued, lines read from the stream
    nav_pc, nav_version, nav_msgs, freq_num_timestamps, nav_out, nav_err,
    nav_eof, nav_warned, nav_pos,
    \* ObsFileV2 / ObsFileV3 (with freq_nums as self.glo_freq_nums and tec as
    \* the record yielded by the last step): the decoder class, its catalog
    \* of observation types, where next_tec stands, the exception that ended
    \* it, the body lines read from the stream
    reader, obs_types, dec_pc, dec_err, lines_read,
    \* the epoch record being processed: its timestamp (<<t>> or None), flag,
    \* satellite count (v3: the satellites still to read), the v2 satellite
    \* list and the position of the v2 loop in it
    epoch_time, epoch_flag, n_of_sats, list_of_sats, sat_i,
    \* the index caches: v2 phase_obs_index and pr_obs_index (per epoch; the
    \* code dicts phase_obs_code and pr_obs_code are filled together with
    \* them and are derived from them), v3 obs_indices (per stream)
    phase_obs_index, pr_obs_index, obs_indices,
    \* the warning issued by the last step (None if none)
    warned,
    \* history: the satellites of the normal epochs as listed in the file,
    \* <<timestamp, id as written>>, how many of them have been processed,
    \* and the <<timestamp, satellite>> of every record yielded, in order
    listing, handled, emitted,
    \* history: the way in which an epoch record's satellite count has been
    \* found to differ from the satellites that follow (None if it has not)
    mismatch,
    \* history: the calls of indices_according_priority made so far, per
    \* satellite system
    attempts,
    \* building a decoder with rnx: where construction stands, the lines of
    \* the file, the lines read since the last rewind, the steps that called
    \* seek(0) so far, the exception that aborted construction, the version
    \* handed to the decoder, the time system read from the header
    open_pc, fh, fh_pos, seeks, open_err, version, time_system,
    \* validate_epoch: the epoch list of the last call and its outcome
    ve_in, ve_out

fetchVars == <<freq_nums, fetch_in, fetch_out>>
navVars == <<nav_pc, nav_version, nav_msgs, freq_num_timestamps, nav_out,
             nav_err, nav_eof, nav_warned, nav_pos>>
decVars == <<reader, obs_types, dec_pc, dec_err, lines_read, epoch_time,
             epoch_flag,
             n_of_sats, list_of_sats, sat_i, phase_obs_index, pr_obs_index,
             obs_indices, warned, listing, handled, emitted, mismatch,
             attempts>>
openVars == <<open_pc, fh, fh_pos, seeks, open_err, version, time_system>>
veVars == <<ve_in, ve_out>>

vars == <<freq_nums, fetch_in, fetch_out, tec, nav_pc, nav_version, nav_msgs,
          freq_num_timestamps, nav_out, nav_err, nav_eof, nav_warned, nav_pos,
          reader, obs_types, dec_pc, dec_err, lines_read, epoch_time,
          epoch_flag,
          n_of_sats, list_of_sats, sat_i, phase_obs_index, pr_obs_index,
          obs_indices, warned, listing, handled, emitted, mismatch,
          attempts,
          open_pc, fh, fh_pos, seeks, open_err, version, time_system,
          ve_in, ve_out>>

None == <<>>

\* ------------------------------------------------------------ bounds
\* ticks of one calendar day
DayLen == 3
\* the last tick a table entry or a query may carry
MaxTime == 5
\* the most entries of the queried slot
MaxEntries == 3

Times == 0 .. MaxTime
\* slot 3 is never a key of a table
QuerySlots == {1, 2, 3}
Channels == {-1, 0}

\* ------------------------------------------------------------ helpers
RECURSIVE SetToSortedSeq(_)
\* sorted(keys): the ascending list of a finite set of ticks
SetToSortedSeq(S) ==
    IF S = {} THEN <<>>
    ELSE LET m == CHOOSE x \in S : \A y \in S : x <= y
         IN <<m>> \o SetToSortedSeq(S \ {m})

\* datetime.date(): the calendar day a tick lies in
Date(t) == t \div DayLen

\* ------------------------------------------------- fetch_slot_freq_num
RECURSIVE ScanDatesTimes(_, _, _, _)
\* the loop of glo.py:208-210 over dates_times[i..], freq_num so far
ScanDatesTimes(timestamp, slot_freq_nums, dates_times, freq_num) ==
    IF dates_times = <<>> THEN freq_num
    ELSE LET ts == Head(dates_times)
         IN ScanDatesTimes(
                timestamp, slot_freq_nums, Tail(dates_times),
                IF timestamp >= ts /\ Date(timestamp) = Date(ts)
                THEN <<slot_freq_nums[ts]>>
                ELSE freq_num)

\* a table that is a defaultdict: the lookup of a missing key inserts an
\* empty dict and succeeds
LookupSlotDefaultdict(slot, table) ==
    IF slot \in DOMAIN table
    THEN [found |-> TRUE, table |-> table]
    ELSE [found |-> TRUE,
          table |-> [s \in DOMAIN table \cup {slot} |->
                        IF s = slot THEN <<>> ELSE table[s]]]

\* freq_nums[slot] of glo.py:201-205: the table is a plain dict, a missing
\* key raises KeyError and inserts nothing
LookupSlot(slot, table) ==
    [found |-> slot \in DOMAIN table, table |-> table]

\* the fallback taking the latest entry instead of the earliest
FetchFallbackLast(timestamp, slot_freq_nums, dates_times) ==
    IF Date(timestamp) = Date(dates_times[Len(dates_times)])
    THEN [kind |-> "ok", freq_num |-> <<slot_freq_nums[dates_times[Len(dates_times)]]>>]
    ELSE [kind |-> "ChannelNotFound", freq_num |-> None]

\* glo.py:215-223: the earliest entry, if it is of the query's date
FetchFallback(timestamp, slot_freq_nums, dates_times) ==
    IF Date(timestamp) = Date(dates_times[1])
    THEN [kind |-> "ok", freq_num |-> <<slot_freq_nums[dates_times[1]]>>]
    ELSE [kind |-> "ChannelNotFound", freq_num |-> None]

\* The outcome of fetch_slot_freq_num(timestamp, slot, freq_nums) with the
\* table as the call leaves it.  Both failures are FetchSlotFreqNumError;
\* kind tells the two messages apart.  A slot whose dict is empty ends in
\* the IndexError of dates_times[0].
fetch_slot_freq_num(timestamp, slot, table) ==
    LET look == LookupSlot(slot, table)
    IN  IF ~look.found
        THEN [kind |-> "SlotNotFound", freq_num |-> None, table |-> look.table]
        ELSE
        LET slot_freq_nums == look.table[slot]
            dates_times == SetToSortedSeq(DOMAIN slot_freq_nums)
            freq_num == ScanDatesTimes(timestamp, slot_freq_nums,
                                       dates_times, None)
        IN  IF freq_num # None
            THEN [kind |-> "ok", freq_num |-> freq_num, table |-> look.table]
            ELSE IF dates_times = <<>>
            THEN [kind |-> "IndexError", freq_num |-> None,
                  table |-> look.table]
            ELSE
            LET r == FetchFallback(timestamp, slot_freq_nums, dates_times)
            IN [kind |-> r.kind, freq_num |-> r.freq_num,
                table |-> look.table]

\* the timestamp -> channel dicts of one slot
SlotMaps(maxEntries) ==
    UNION {[D -> Channels] : D \in {E \in SUBSET Times : Cardinality(E) <= maxEntries}}

\* Tables: slot 1 with up to MaxEntries entries or missing, slot 2 with one
\* entry or missing
Tables ==
    LET M1 == {[s \in {1} |-> m] : m \in SlotMaps(MaxEntries)} \cup {<<>>}
        M2 == {[s \in {2} |-> [t \in {MaxTime} |-> 1]], <<>>}
    IN {[s \in DOMAIN a \cup DOMAIN b |->
            IF s \in DOMAIN a THEN a[s] ELSE b[s]] : a \in M1, b \in M2}

TecIdle == tec = None

NavIdle ==
    /\ nav_pc = "off"
    /\ nav_version = None
    /\ nav_msgs = <<>>
    /\ freq_num_timestamps = <<>>
    /\ nav_out = None
    /\ nav_err = None
    /\ nav_eof = FALSE
    /\ nav_warned = 0
    /\ nav_pos = 0

\* rnx has not been called
OpenIdle ==
    /\ open_pc = "off"
    /\ fh = <<>>
    /\ fh_pos = 0
    /\ seeks = <<>>
    /\ open_err = None
    /\ version = None
    /\ time_system = None

\* validate_epoch has not been called
VeIdle ==
    /\ ve_in = None
    /\ ve_out = None

\* no decoder has been built
DecIdle ==
    /\ reader = None
    /\ obs_types = <<>>
    /\ dec_pc = "off"
    /\ dec_err = None
    /\ lines_read = 0
    /\ epoch_time = None
    /\ epoch_flag = 0
    /\ n_of_sats = 0
    /\ list_of_sats = <<>>
    /\ sat_i = 0
    /\ phase_obs_index = <<>>
    /\ pr_obs_index = <<>>
    /\ obs_indices = <<>>
    /\ warned = None
    /\ listing = <<>>
    /\ handled = 0
    /\ emitted = <<>>
    /\ mismatch = None
    /\ attempts = <<>>

InitFetch ==
    /\ freq_nums \in Tables
    /\ fetch_in = None
    /\ fetch_out = None
    /\ TecIdle
    /\ NavIdle
    /\ DecIdle
    /\ OpenIdle
    /\ VeIdle

FetchIdle ==
    /\ freq_nums = <<>>
    /\ fetch_in = None
    /\ fetch_out = None

\* one call of fetch_slot_freq_num on the table
Fetch ==
    \E timestamp \in Times, slot \in QuerySlots :
        LET r == fetch_slot_freq_num(timestamp, slot, freq_nums)
        IN /\ fetch_in' = [timestamp |-> timestamp, slot |-> slot,
                           table |-> freq_nums]
           /\ fetch_out' = [kind |-> r.kind, freq_num |-> r.freq_num]
           /\ freq_nums' = r.table
           /\ UNCHANGED <<tec, navVars, decVars, openVars, veVars>>

NextFetch == Fetch

SpecFetch == InitFetch /\ [][NextFetch]_vars

\* ------------------------------------------------------------- gnss.py
GPS == "G"
GLO == "R"
GAL == "E"
QZSS == "J"
BDS == "C"
SBAS == "S"
IRNSS == "I"

Systems == {GPS, GLO, GAL, SBAS, QZSS, BDS, IRNSS}

\* every band of every system on the GPS L1 carrier
FrequencyOneCarrier(sat_sys, band, k) == <<3150840>>

\* FREQUENCY in units of 500 Hz (every entry and both GLONASS steps are
\* whole multiples of it); k is the GLONASS frequency number.  <<>> stands
\* for a band the system's dict does not hold.
FREQUENCY(sat_sys, band, k) ==
    CASE sat_sys = GPS ->
            (CASE band = 1 -> <<3150840>> [] band = 2 -> <<2455200>>
               [] band = 5 -> <<2352900>> [] OTHER -> <<>>)
      [] sat_sys = GLO ->
            (CASE band = 1 -> <<3204000 + k * 1125>>
               [] band = 2 -> <<2492000 + k * 875>>
               [] band = 3 -> <<2404050>> [] OTHER -> <<>>)
      [] sat_sys = GAL ->
            (CASE band = 1 -> <<3150840>> [] band = 5 -> <<2352900>>
               [] band = 7 -> <<2414280>> [] band = 8 -> <<2383590>>
               [] band = 6 -> <<2557500>> [] OTHER -> <<>>)
      [] sat_sys = SBAS ->
            (CASE band = 1 -> <<3150840>> [] band = 5 -> <<2352900>>
               [] OTHER -> <<>>)
      [] sat_sys = QZSS ->
            (CASE band = 1 -> <<3150840>> [] band = 2 -> <<2455200>>
               [] band = 5 -> <<2352900>> [] band = 6 -> <<2557500>>
               [] OTHER -> <<>>)
      [] sat_sys = BDS ->
            (CASE band = 2 -> <<3122196>> [] band = 7 -> <<2414280>>
               [] band = 6 -> <<2537040>> [] OTHER -> <<>>)
      [] sat_sys = IRNSS ->
            (CASE band = 5 -> <<2352900>> [] band = 9 -> <<4984056>>
               [] OTHER -> <<>>)
      [] OTHER -> <<>>

BAND_PRIORITY(sat_sys) ==
    CASE sat_sys = GPS -> << <<1, 2>>, <<1, 5>> >>
      [] sat_sys = GLO -> << <<1, 2>>, <<1, 3>> >>
      [] sat_sys = GAL -> << <<1, 5>>, <<1, 7>>, <<1, 8>>, <<1, 6>> >>
      [] sat_sys = SBAS -> << <<1, 5>> >>
      [] sat_sys = QZSS -> << <<1, 2>>, <<1, 5>>, <<1, 6>> >>
      [] sat_sys = BDS -> << <<2, 7>>, <<2, 6>> >>
      [] sat_sys = IRNSS -> << <<5, 9>> >>

\* -------------------------------------------------------------- tec.py
\* satellite[0].upper() of a three-character id such as <<"G", "0", "1">>
SatSys(satellite) == satellite[1]

\* Tec.__init__: the record a decoder fills.  A GLONASS satellite without
\* a frequency number raises TecError (None here).
NewTec(timestamp, satellite, glo_freq_num) ==
    IF SatSys(satellite) = GLO /\ glo_freq_num = None THEN None
    ELSE [timestamp |-> timestamp,
          satellite |-> satellite,
          glo_freq_num |-> glo_freq_num,
          phase |-> <<0, 0>>,
          phase_code |-> <<None, None>>,
          p_range |-> <<0, 0>>,
          p_range_code |-> <<None, None>>,
          signal_strength |-> 0,
          lli |-> <<0, 0>>]

\* int(obs_code[b][1]): the band digit of a code
BandOf(code) == code[2]

\* Tec._get_freq: the two carrier frequencies of a code pair, or the
\* exception raised
get_freq(obs_code, sat_sys, glo_freq_num) ==
    IF sat_sys \notin Systems THEN [kind |-> "TecError"]
    ELSE IF obs_code[1] = None \/ obs_code[2] = None
    THEN [kind |-> "TypeError"]
    ELSE LET k == IF glo_freq_num = None THEN 0 ELSE glo_freq_num[1]
             f1 == FREQUENCY(sat_sys, BandOf(obs_code[1]), k)
             f2 == FREQUENCY(sat_sys, BandOf(obs_code[2]), k)
         IN IF f1 = <<>> \/ f2 = <<>> THEN [kind |-> "KeyError"]
            ELSE [kind |-> "ok", f1 |-> f1[1], f2 |-> f2[1]]

\* Tec._calc_phase_tec with Tec.factor: the value is
\*   A * c * f1 * f2 / (f1 + f2)  *  num / den,   A = 1e-16 / 40.308,
\* of which the sign-carrying part num / den is kept
\*   (num = p1 * f2 - p2 * f1, den = f1 - f2).
calc_phase_tec(p1, p2, freq) ==
    IF freq.kind # "ok" THEN [kind |-> freq.kind]
    ELSE IF freq.f1 = freq.f2 THEN [kind |-> "ZeroDivisionError"]
    ELSE [kind |-> "value",
          num |-> p1 * freq.f2 - p2 * freq.f1,
          den |-> freq.f1 - freq.f2]

\* Tec._calc_p_range_tec with Tec.factor: the value is
\*   A * f1^2 * f2^2 / (f1 + f2)  *  num / den
\* (num = r2 - r1, den = f1 - f2).
calc_p_range_tec(r1, r2, freq) ==
    IF freq.kind # "ok" THEN [kind |-> freq.kind]
    ELSE IF freq.f1 = freq.f2 THEN [kind |-> "ZeroDivisionError"]
    ELSE [kind |-> "value", num |-> r2 - r1, den |-> freq.f1 - freq.f2]

\* an observable that counts as missing only when both bands are zero
AnyMissingBoth(obs) == obs[1] = 0 /\ obs[2] = 0

\* "for b in 1, 2: if obs[b] == 0: return None"
AnyMissing(obs) == obs[1] = 0 \/ obs[2] = 0

\* Tec.phase_tec
phase_tec(t) ==
    IF AnyMissing(t.phase) THEN [kind |-> "None"]
    ELSE calc_phase_tec(
            t.phase[1], t.phase[2],
            get_freq(t.phase_code, SatSys(t.satellite), t.glo_freq_num))

\* Tec.p_range_tec (the frequencies are looked up from phase_code)
p_range_tec(t) ==
    IF AnyMissing(t.p_range) THEN [kind |-> "None"]
    ELSE calc_p_range_tec(
            t.p_range[1], t.p_range[2],
            get_freq(t.phase_code, SatSys(t.satellite), t.glo_freq_num))

\* the pattern with the LLI bits of the two bands exchanged
ValidityPatternSwapped(t) ==
    [pos \in 0 .. 7 |->
        CASE pos = 2 -> IF t.lli[1] # 0 THEN 4 ELSE 0
          [] pos = 3 -> IF t.lli[2] # 0 THEN 8 ELSE 0
          [] pos = 4 -> IF t.p_range[2] = 0 THEN 16 ELSE 0
          [] pos = 5 -> IF t.p_range[1] = 0 THEN 32 ELSE 0
          [] pos = 6 -> IF t.phase[2] = 0 THEN 64 ELSE 0
          [] pos = 7 -> IF t.phase[1] = 0 THEN 128 ELSE 0
          [] OTHER -> 0]

\* the pattern with the phase bits taken from the ranges
ValidityPatternRangesOnly(t) ==
    [pos \in 0 .. 7 |->
        CASE pos = 2 -> IF t.lli[2] # 0 THEN 4 ELSE 0
          [] pos = 3 -> IF t.lli[1] # 0 THEN 8 ELSE 0
          [] pos = 4 -> IF t.p_range[2] = 0 THEN 16 ELSE 0
          [] pos = 5 -> IF t.p_range[1] = 0 THEN 32 ELSE 0
          [] pos = 6 -> IF t.p_range[2] = 0 THEN 64 ELSE 0
          [] pos = 7 -> IF t.p_range[1] = 0 THEN 128 ELSE 0
          [] OTHER -> 0]

\* the pattern dict of Tec.validity
ValidityPattern(t) ==
    [pos \in 0 .. 7 |->
        CASE pos = 2 -> IF t.lli[2] # 0 THEN 4 ELSE 0
          [] pos = 3 -> IF t.lli[1] # 0 THEN 8 ELSE 0
          [] pos = 4 -> IF t.p_range[2] = 0 THEN 16 ELSE 0
          [] pos = 5 -> IF t.p_range[1] = 0 THEN 32 ELSE 0
          [] pos = 6 -> IF t.phase[2] = 0 THEN 64 ELSE 0
          [] pos = 7 -> IF t.phase[1] = 0 THEN 128 ELSE 0
          [] OTHER -> 0]

RECURSIVE SumPattern(_, _)
SumPattern(pattern, pos) ==
    IF pos < 0 THEN 0 ELSE pattern[pos] + SumPattern(pattern, pos - 1)

\* Tec.validity
validity(t) == SumPattern(ValidityPattern(t), 7)

\* --------------------------------------------------- a record being set
\* values an observation may carry; 0 is "not observed"
ObsValues == {-1, 0, 2}
LliValues == {0, 1}
\* a satellite of every system of FREQUENCY
TecSatellites == {<<sat_sys, "0", "1">> : sat_sys \in Systems}
\* the GLONASS frequency numbers
GloFreqNums == -7 .. 6

\* the code pairs a decoder can assign for a satellite system
CodePairs(sat_sys, letter) ==
    {<< <<letter, BAND_PRIORITY(sat_sys)[i][1]>>,
        <<letter, BAND_PRIORITY(sat_sys)[i][2]>> >> :
        i \in 1 .. Len(BAND_PRIORITY(sat_sys))}

InitTec ==
    /\ \E satellite \in TecSatellites :
       \E k \in (IF SatSys(satellite) = GLO
                 THEN {<<n>> : n \in GloFreqNums} ELSE {None}) :
            tec = NewTec(0, satellite, k)
    /\ FetchIdle
    /\ NavIdle
    /\ DecIdle
    /\ OpenIdle
    /\ VeIdle

\* tec.phase[b] = value
SetPhase ==
    \E b \in {1, 2}, v \in ObsValues :
        /\ tec' = [tec EXCEPT !.phase[b] = v]
        /\ UNCHANGED <<fetchVars, navVars, decVars, openVars, veVars>>

\* tec.p_range[b] = value
SetPRange ==
    \E b \in {1, 2}, v \in ObsValues :
        /\ tec' = [tec EXCEPT !.p_range[b] = v]
        /\ UNCHANGED <<fetchVars, navVars, decVars, openVars, veVars>>

\* tec.lli[b] = value
SetLli ==
    \E b \in {1, 2}, v \in LliValues :
        /\ tec' = [tec EXCEPT !.lli[b] = v]
        /\ UNCHANGED <<fetchVars, navVars, decVars, openVars, veVars>>

\* tec.phase_code = ...; tec.p_range_code = ...
SetCodes ==
    \E pc \in CodePairs(SatSys(tec.satellite), "L"),
       rc \in CodePairs(SatSys(tec.satellite), "C") :
        /\ tec' = [tec EXCEPT !.phase_code = pc, !.p_range_code = rc]
        /\ UNCHANGED <<fetchVars, navVars, decVars, openVars, veVars>>

NextTec == SetPhase \/ SetPRange \/ SetLli \/ SetCodes

SpecTec == InitTec /\ [][NextTec]_vars

\* ---------------------------------------------------------- claims C3, C4
\* C3: phase_tec is None exactly when phase[1] or phase[2] is zero, and
\* p_range_tec is None exactly when p_range[1] or p_range[2] is zero; a
\* record with a missing observation never has a computed TEC.
C3_TecAbsentIffMissing ==
    tec # None =>
        /\ (phase_tec(tec).kind = "None") <=>
                (tec.phase[1] = 0 \/ tec.phase[2] = 0)
        /\ (p_range_tec(tec).kind = "None") <=>
                (tec.p_range[1] = 0 \/ tec.p_range[2] = 0)
        /\ (tec.phase[1] = 0 \/ tec.phase[2] = 0) =>
                phase_tec(tec).kind # "value"
        /\ (tec.p_range[1] = 0 \/ tec.p_range[2] = 0) =>
                p_range_tec(tec).kind # "value"

\* a record with codes set whose band-2 phase alone is missing while its
\* range TEC is computed
C3_Witness ==
    /\ tec # None
    /\ tec.phase[1] # 0 /\ tec.phase[2] = 0
    /\ phase_tec(tec).kind = "None"
    /\ p_range_tec(tec).kind = "value"

Bit(cond, weight) == IF cond THEN weight ELSE 0

PR_OBS_PRIORITY == << <<"P", "P">>, <<"C", "C">>, <<"C", "P">> >>
\* the single preference of the phase codes
PHASE_OBS_PRIORITY == << <<"L", "L">> >>

RECURSIVE IndexOf(_, _)
\* list.index: the first position of x in a list, 0 when x is not in it
\* (ValueError)
IndexOf(list, x) ==
    IF list = <<>> THEN 0
    ELSE IF Head(list) = x THEN 1
    ELSE LET i == IndexOf(Tail(list), x)
         IN IF i = 0 THEN 0 ELSE i + 1

\* the candidates enumerated preference by preference and, within a
\* preference, band pair by band pair
ObsBandPairByPreference(band_priority, obs_priority, k) ==
    LET band == band_priority[((k - 1) % Len(band_priority)) + 1]
        obs == obs_priority[((k - 1) \div Len(band_priority)) + 1]
    IN << <<obs[1], band[1]>>, <<obs[2], band[2]>> >>

\* obs_band_pair of _get_obs_indices: candidate k pairs the bands of one
\* band pair with the letters of one preference, band pair by band pair and
\* within a band pair preference by preference
ObsBandPair(band_priority, obs_priority, k) ==
    LET band == band_priority[((k - 1) \div Len(obs_priority)) + 1]
        obs == obs_priority[((k - 1) % Len(obs_priority)) + 1]
    IN << <<obs[1], band[1]>>, <<obs[2], band[2]>> >>

RECURSIVE ObsIndicesFrom(_, _, _, _)
ObsIndicesFrom(all_types, band_priority, obs_priority, k) ==
    IF k > Len(band_priority) * Len(obs_priority) THEN <<>>
    ELSE LET combination == ObsBandPair(band_priority, obs_priority, k)
             i1 == IndexOf(all_types, combination[1])
             i2 == IndexOf(all_types, combination[2])
             rest == ObsIndicesFrom(all_types, band_priority,
                                    obs_priority, k + 1)
         IN IF i1 = 0 \/ i2 = 0 THEN rest ELSE << <<i1, i2>> >> \o rest

\* ObsFileV2._get_obs_indices: the index pairs of all fully declared
\* candidates, in candidate order; <<>> stands for its ValueError
get_obs_indices(all_types, band_priority, obs_priority) ==
    ObsIndicesFrom(all_types, band_priority, obs_priority, 1)

\* ObsFileV3.bands
V3Bands(sat_sys) ==
    CASE sat_sys = GPS -> {1, 2, 5}
      [] sat_sys = GLO -> {1, 2, 3}
      [] sat_sys = GAL -> {1, 5, 6, 7, 8}
      [] sat_sys = BDS -> {2, 6, 7}
      [] sat_sys = SBAS -> {1, 5}
      [] sat_sys = QZSS -> {1, 2, 5, 6}
      [] sat_sys = IRNSS -> {5, 9}

IQX == {"I", "Q", "X"}
ABCXZ == {"A", "B", "C", "X", "Z"}
SLX == {"S", "L", "X"}

\* ObsFileV3.channels
V3Channels(sat_sys, band) ==
    CASE sat_sys = GPS ->
            (CASE band = 1 -> {"C", "S", "L", "X", "P", "W", "Y", "M", "N"}
               [] band = 2 -> {"C", "D", "S", "L", "X", "P", "W", "Y", "M", "N"}
               [] band = 5 -> IQX)
      [] sat_sys = GLO ->
            (CASE band = 1 -> {"C", "P"} [] band = 2 -> {"C", "P"}
               [] band = 3 -> IQX)
      [] sat_sys = GAL ->
            (CASE band = 1 -> ABCXZ [] band = 5 -> IQX [] band = 6 -> ABCXZ
               [] band = 7 -> IQX [] band = 8 -> IQX)
      [] sat_sys = BDS -> IQX
      [] sat_sys = SBAS -> (CASE band = 1 -> {"C"} [] band = 5 -> IQX)
      [] sat_sys = QZSS ->
            (CASE band = 1 -> {"C", "S", "L", "X", "Z"} [] band = 2 -> SLX
               [] band = 5 -> IQX [] band = 6 -> SLX)
      [] sat_sys = IRNSS -> {"A", "B", "C", "X"}

\* _generate_obs_codes: the codes of one kind ('L' or 'C') on a band
V3ObsCodes(sat_sys, letter, band) ==
    {<<letter, band, channel>> : channel \in V3Channels(sat_sys, band)}

\* the positions of the declared codes of one kind on a band, whatever
\* their channel
V3OtIndicesAnyChannel(sys_obs_types, sat_sys, letter, band) ==
    {i \in 1 .. Len(sys_obs_types) :
        sys_obs_types[i][1] = letter /\ sys_obs_types[i][2] = band}

\* code() of indices_according_priority: the catalog positions of the
\* declared codes of one kind on a band (a set: their order is that of a
\* Python set)
V3OtIndices(sys_obs_types, sat_sys, letter, band) ==
    {IndexOf(sys_obs_types, c) :
        c \in V3ObsCodes(sat_sys, letter, band) \cap
              {sys_obs_types[i] : i \in 1 .. Len(sys_obs_types)}}

RECURSIVE V3Indices(_, _, _, _)
\* indices() of indices_according_priority: the position pairs it may
\* return for the first band pair with both bands available ({} stands for
\* its ValueError)
V3Indices(b_priority, sys_obs_types, sat_sys, letter) ==
    IF b_priority = <<>> THEN {}
    ELSE LET first == V3OtIndices(sys_obs_types, sat_sys, letter,
                                  Head(b_priority)[1])
             second == V3OtIndices(sys_obs_types, sat_sys, letter,
                                   Head(b_priority)[2])
         IN IF first # {} /\ second # {} THEN first \X second
            ELSE V3Indices(Tail(b_priority), sys_obs_types, sat_sys, letter)

\* ObsFileV3.indices_according_priority: the results it may return, {} when
\* it raises ValueError
indices_according_priority(catalog, sat_sys) ==
    [phase : V3Indices(BAND_PRIORITY(sat_sys), catalog[sat_sys], sat_sys, "L"),
     pseudo_range :
        V3Indices(BAND_PRIORITY(sat_sys), catalog[sat_sys], sat_sys, "C")]

\* ------------------------------------------------ collect_freq_nums
\* the most navigation messages a stream holds
MaxMsgs == 3
\* the most header lines before END OF HEADER
MaxHeaderLines == 1
\* warnings counted before the count saturates
MaxWarned == 2

\* version (in hundredths) and type of the first header line
NavVersionTypes ==
    {<<100, "G">>, <<200, "G">>, <<211, "G">>, <<211, "N">>, <<212, "G">>,
     <<300, "N">>, <<303, "G">>, <<304, "N">>}
NavSlots == {1, 2}
NavTimes == {0, 1}
NavFreqNums == {0, 1}
\* what _next_nav_mgs yields: (slot, epoch, frequency_number)
NavMessages == NavSlots \X NavTimes \X NavFreqNums

InitNav ==
    /\ nav_pc = "read_version_type"
    /\ nav_version = None
    /\ nav_msgs = <<>>
    /\ freq_num_timestamps = <<>>
    /\ nav_out = None
    /\ nav_err = None
    /\ nav_eof = FALSE
    /\ nav_warned = 0
    /\ nav_pos = 0
    /\ FetchIdle
    /\ TecIdle
    /\ DecIdle
    /\ OpenIdle
    /\ VeIdle

\* glo.py:141-153: the two checks of collect_freq_nums
VersionTypeRejected(rnx_version, rnx_type) ==
    rnx_version > 211 \/ rnx_type # "G"

\* _read_version_type and the checks of collect_freq_nums
NavReadVersionType ==
    /\ nav_pc = "read_version_type"
    /\ \E vt \in NavVersionTypes :
        /\ nav_version' = vt
        /\ IF VersionTypeRejected(vt[1], vt[2])
           THEN nav_pc' = "error" /\ nav_err' = "NavigationFileError"
           ELSE nav_pc' = "skip_header" /\ nav_err' = nav_err
    /\ nav_pos' = 1
    /\ UNCHANGED <<nav_msgs, freq_num_timestamps, nav_out, nav_eof,
                   nav_warned, fetchVars, tec,
                   decVars, openVars, veVars>>

\* one pass of the loop of _skip_header: a line that is END OF HEADER, one
\* that is not, or StopIteration, which warns and loops
NavSkipHeaderLine ==
    /\ nav_pc = "skip_header"
    /\ \/ /\ ~nav_eof
          /\ nav_pc' = "messages"
          /\ nav_pos' = nav_pos + 1
          /\ UNCHANGED <<nav_eof, nav_warned>>
       \/ /\ ~nav_eof
          /\ nav_pos < 1 + MaxHeaderLines
          /\ nav_pos' = nav_pos + 1
          /\ UNCHANGED <<nav_pc, nav_eof, nav_warned>>
       \/ /\ nav_eof' = TRUE
          /\ nav_warned' = IF nav_warned < MaxWarned THEN nav_warned + 1
                           ELSE nav_warned
          /\ UNCHANGED <<nav_pc, nav_pos>>
    /\ UNCHANGED <<nav_version, nav_msgs, freq_num_timestamps, nav_out,
                   nav_err, fetchVars, tec,
                   decVars, openVars, veVars>>

\* position of channel f_num in a slot's insertion-ordered dict, 0 if absent
RECURSIVE KeyIndex(_, _)
KeyIndex(d, f_num) ==
    IF d = <<>> THEN 0
    ELSE IF d[Len(d)][1] = f_num THEN Len(d)
    ELSE KeyIndex(SubSeq(d, 1, Len(d) - 1), f_num)

\* freq_num_timestamps[slot] of a defaultdict(dict)
SlotDict(fnt, slot) == IF slot \in DOMAIN fnt THEN fnt[slot] ELSE <<>>

\* the loop body without its "continue": a repeated channel takes the
\* timestamp of the repeating message
CollectMsgOverwrite(fnt, slot, epoch, f_num) ==
    LET d == SlotDict(fnt, slot)
        i == KeyIndex(d, f_num)
        d2 == IF i > 0 THEN [d EXCEPT ![i] = <<f_num, epoch>>]
              ELSE Append(d, <<f_num, epoch>>)
    IN [s \in DOMAIN fnt \cup {slot} |-> IF s = slot THEN d2 ELSE fnt[s]]

\* glo.py:159-161: keep the first timestamp of each channel of a slot
CollectMsg(fnt, slot, epoch, f_num) ==
    LET d == SlotDict(fnt, slot)
        d2 == IF KeyIndex(d, f_num) > 0 THEN d
              ELSE Append(d, <<f_num, epoch>>)
    IN [s \in DOMAIN fnt \cup {slot} |-> IF s = slot THEN d2 ELSE fnt[s]]

\* one pass of "for slot, epoch, f_num in _next_nav_mgs(file_handler)":
\* the four lines of a message are read and the dict updated, or the
\* stream ends (also inside a message) and the loop is left
NavNextMsg ==
    /\ nav_pc = "messages"
    /\ \/ /\ Len(nav_msgs) < MaxMsgs
          /\ \E m \in NavMessages :
                /\ nav_msgs' = Append(nav_msgs, m)
                /\ freq_num_timestamps' =
                        CollectMsg(freq_num_timestamps, m[1], m[2], m[3])
          /\ nav_pos' = nav_pos + 4
          /\ UNCHANGED <<nav_pc, nav_eof>>
       \/ /\ nav_eof' = TRUE
          /\ nav_pc' = "invert"
          /\ \E k \in 0 .. 3 : nav_pos' = nav_pos + k
          /\ UNCHANGED <<nav_msgs, freq_num_timestamps>>
    /\ UNCHANGED <<nav_version, nav_out, nav_err, nav_warned, fetchVars, tec,
                   decVars, openVars, veVars>>

RECURSIVE ZipDict(_)
\* dict(zip(t_stamps, f_nums)): a later pair of the same timestamp replaces
\* an earlier one
ZipDict(d) ==
    IF d = <<>> THEN <<>>
    ELSE LET rest == ZipDict(SubSeq(d, 1, Len(d) - 1))
             last == d[Len(d)]
         IN [t \in DOMAIN rest \cup {last[2]} |->
                IF t = last[2] THEN last[1] ELSE rest[t]]

\* glo.py:167-177: invert each slot's dict and return a plain dict
NavInvert ==
    /\ nav_pc = "invert"
    /\ nav_out' = <<[s \in DOMAIN freq_num_timestamps |->
                        ZipDict(freq_num_timestamps[s])]>>
    /\ nav_pc' = "done"
    /\ UNCHANGED <<nav_version, nav_msgs, freq_num_timestamps, nav_err,
                   nav_eof, nav_warned, nav_pos, fetchVars, tec,
                   decVars, openVars, veVars>>

NextNav ==
    NavReadVersionType \/ NavSkipHeaderLine \/ NavNextMsg \/ NavInvert

SpecNav == InitNav /\ [][NextNav]_vars

\* --------------------------------------------------------- claims C9, C10
RECURSIVE FirstEpoch(_, _, _)
\* the timestamp of the first message of msgs that carries channel f_num
\* for slot (<<>> when there is none)
FirstEpoch(msgs, slot, f_num) ==
    IF msgs = <<>> THEN <<>>
    ELSE IF Head(msgs)[1] = slot /\ Head(msgs)[3] = f_num
    THEN <<Head(msgs)[2]>>
    ELSE FirstEpoch(Tail(msgs), slot, f_num)

SeenFreqNums(msgs, slot) ==
    {msgs[i][3] : i \in {j \in 1 .. Len(msgs) : msgs[j][1] = slot}}

\* C9: every timestamp kept for a slot, while scanning and in the table
\* returned, is the timestamp of the first message in stream order that
\* carried its channel for that slot; a message repeating a channel
\* already seen for its slot adds no entry (one entry per distinct channel).
C9_FirstSeenTimestampKept ==
    /\ \A slot \in DOMAIN freq_num_timestamps :
        LET d == freq_num_timestamps[slot]
        IN /\ \A i \in 1 .. Len(d) :
                <<d[i][2]>> = FirstEpoch(nav_msgs, slot, d[i][1])
           /\ Len(d) = Cardinality(SeenFreqNums(nav_msgs, slot))
    /\ nav_pc = "done" =>
        \A slot \in DOMAIN nav_out[1] :
            \A ts \in DOMAIN nav_out[1][slot] :
                <<ts>> = FirstEpoch(nav_msgs, slot, nav_out[1][slot][ts])

\* a table returned after a slot's channel was repeated at a later time
C9_Witness ==
    /\ nav_pc = "done"
    /\ \E i, j \in 1 .. Len(nav_msgs) :
        /\ i < j
        /\ nav_msgs[i][1] = nav_msgs[j][1]
        /\ nav_msgs[i][3] = nav_msgs[j][3]
        /\ nav_msgs[i][2] < nav_msgs[j][2]
        /\ nav_msgs[i][1] \in DOMAIN nav_out[1]
        /\ nav_msgs[i][2] \in DOMAIN nav_out[1][nav_msgs[i][1]]
        /\ nav_msgs[j][2] \notin DOMAIN nav_out[1][nav_msgs[i][1]]

\* the versions and types the claim has collect_freq_nums read
C10_Supported(rnx_version, rnx_type) ==
    \/ (200 <= rnx_version /\ rnx_version <= 211 /\ rnx_type = "G")
    \/ (300 <= rnx_version /\ rnx_version <= 303)

\* C10: collect_freq_nums goes on to build a table exactly for version
\* 2.0-2.11 with type 'G' and version 3.0-3.03 with any type; for every
\* other version or type it fails before reading a navigation message.
C10_VersionTypeDispatch ==
    nav_version # None =>
        /\ (nav_pc = "error") <=>
                ~C10_Supported(nav_version[1], nav_version[2])
        /\ nav_pc = "error" =>
                nav_msgs = <<>> /\ nav_out = None /\ nav_pos = 1

SameDayNotAfter(table, slot, t) ==
    {ts \in DOMAIN table[slot] : ts <= t /\ Date(ts) = Date(t)}

SetMax(S) == CHOOSE x \in S : \A y \in S : y <= x
SetMin(S) == CHOOSE x \in S : \A y \in S : x <= y

\* C1: for a slot that is a key of the table, fetch_slot_freq_num returns
\* the channel stored under the latest of the slot's timestamps that is <= t
\* and of t's calendar date; when there is none and the slot's earliest
\* timestamp is of t's calendar date, it returns the channel stored under
\* that earliest timestamp.
C1_FetchLatestSameDay ==
    fetch_in # None =>
        LET t == fetch_in.timestamp
            slot == fetch_in.slot
            table == fetch_in.table
        IN slot \in DOMAIN table =>
            LET Q == SameDayNotAfter(table, slot, t)
                D == DOMAIN table[slot]
            IN /\ Q # {} =>
                    fetch_out = [kind |-> "ok",
                                 freq_num |-> <<table[slot][SetMax(Q)]>>]
               /\ (Q = {} /\ D # {} /\ Date(SetMin(D)) = Date(t)) =>
                    fetch_out = [kind |-> "ok",
                                 freq_num |-> <<table[slot][SetMin(D)]>>]

\* a query answered from the latest of two qualifying entries while the
\* slot has a later entry on the same day
C1_Witness ==
    /\ fetch_in # None
    /\ fetch_in.slot \in DOMAIN fetch_in.table
    /\ LET Q == SameDayNotAfter(fetch_in.table, fetch_in.slot,
                                fetch_in.timestamp)
           m == fetch_in.table[fetch_in.slot]
       IN /\ Cardinality(Q) = 2
          /\ m[SetMax(Q)] # m[SetMin(Q)]
          /\ \E ts \in DOMAIN m :
                ts > fetch_in.timestamp /\ Date(ts) = Date(fetch_in.timestamp)
          /\ fetch_out.kind = "ok"

\* C2: an unknown slot fails with SlotNotFound; a known slot with no
\* timestamp <= t of t's date and its earliest timestamp on another date
\* fails with ChannelNotFound; a failure returns no channel and leaves the
\* table as it was.
C2_FetchFailures ==
    fetch_in # None =>
        LET t == fetch_in.timestamp
            slot == fetch_in.slot
            table == fetch_in.table
        IN /\ slot \notin DOMAIN table => fetch_out.kind = "SlotNotFound"
           /\ (/\ slot \in DOMAIN table
               /\ DOMAIN table[slot] # {}
               /\ SameDayNotAfter(table, slot, t) = {}
               /\ Date(SetMin(DOMAIN table[slot])) # Date(t))
                 => fetch_out.kind = "ChannelNotFound"
           /\ fetch_out.kind \in {"SlotNotFound", "ChannelNotFound"} =>
                 /\ fetch_out.freq_num = None
                 /\ freq_nums = table

\* a known slot that has an earlier-day entry only, queried the day after
C2_Witness ==
    /\ fetch_in # None
    /\ fetch_in.slot \in DOMAIN fetch_in.table
    /\ fetch_out.kind = "ChannelNotFound"
    /\ freq_nums = fetch_in.table
    /\ \E ts \in DOMAIN fetch_in.table[fetch_in.slot] :
            ts < fetch_in.timestamp


\* ------------------------------------------------ rinex.py: the decoders
\* The body of the stream is read forward, one line at a time, and never
\* re-read: each read draws the line that comes next.  A stream holds at
\* most MaxLines body lines and may end before any read.

\* body lines of a stream at most
MaxLines == 4
\* satellites an epoch record lists at most
MaxSats == 2
\* the count field of an event record at most
MaxEventCount == 2

ObsFileV2 == "ObsFileV2"
ObsFileV3 == "ObsFileV3"

Max(a, b) == IF a >= b THEN a ELSE b

\* math.ceil(a / b.) for a >= 0
Ceil(a, b) == (a + b - 1) \div b

\* the catalog retrieve_obs_types builds from the header: a v2 header
\* declaring L1 L2 C1 P2 P1, a v3 header declaring five codes for GPS (two
\* of them phase codes of band 2), four for GLONASS and two for Galileo
HeaderObsTypes(cls) ==
    IF cls = ObsFileV2
    THEN << <<"L", 1>>, <<"L", 2>>, <<"C", 1>>, <<"P", 2>>, <<"P", 1>> >>
    ELSE [sat_sys \in {GPS, GLO, GAL} |->
            CASE sat_sys = GPS -> << <<"C", 1, "C">>, <<"L", 1, "C">>,
                                     <<"C", 2, "W">>, <<"L", 2, "W">>,
                                     <<"L", 2, "X">> >>
              [] sat_sys = GLO -> << <<"C", 1, "C">>, <<"L", 1, "C">>,
                                     <<"C", 2, "P">>, <<"L", 2, "P">> >>
              [] sat_sys = GAL -> << <<"C", 1, "C">>, <<"L", 1, "C">> >>]

\* the catalogs of the streams decoded: the v2 header may declare a sixth
\* type, S1, so that a satellite's observations take two lines
HeaderCatalogs(cls) ==
    IF cls = ObsFileV2
    THEN {HeaderObsTypes(cls), Append(HeaderObsTypes(cls), <<"S", 1>>)}
    ELSE {HeaderObsTypes(cls)}

\* rinex.py:232: an epoch line holds the ids of twelve satellites
SatsPerRow == 12
\* rinex.py:317: an observation line holds five observations
ObsPerRow == 5

\* rinex.py:233-238: the lines of a v2 epoch record declaring n
\* satellites, its first line and rows_to_read continuation lines
V2EpochRows(n) == 1 + Max(Ceil(n, SatsPerRow) - 1, 0)

\* no line for a satellite
V2SatRowsNone(n_types) == 0

\* one line for a satellite, however many types are declared
V2SatRowsOne(n_types) == 1

\* rinex.py:316-321: the lines of one satellite's observations, the first
\* and rows_to_read further ones
V2SatRows(n_types) == 1 + Max(Ceil(n_types, ObsPerRow) - 1, 0)

\* the satellite counts a v2 epoch record declares: those of the lists
\* drawn, and one more than a line holds
DeclaredCounts == 0 .. MaxSats \cup {SatsPerRow + 1}

\* the glo_freq_nums argument of the constructor: absent, empty, or a
\* table with one entry for slot 1
GloFreqNumsArgs ==
    {[given |-> FALSE, table |-> <<>>],
     [given |-> TRUE, table |-> <<>>],
     [given |-> TRUE, table |-> [slot \in {1} |-> [ts \in {1} |-> -1]]]}

\* ObsFile.__init__: an absent table becomes the empty dict
InitGloFreqNums(arg) == IF ~arg.given THEN <<>> ELSE arg.table

\* timestamps of the epoch records: of the day of the table's entry and
\* not before it, and of a later day
EpochTimes == {1, MaxTime}
\* the timestamp a v3 event record may carry, that of no normal record
EventTime == MaxTime + 1

\* satellite ids as written in the file: a v2 id with a blank system
\* letter, a v3 id with a blank digit
ListedSats(cls) ==
    IF cls = ObsFileV2
    THEN {<<" ", "0", "1">>, <<"R", "0", "1">>, <<"E", "0", "1">>}
    ELSE {<<"G", "0", "1">>, <<"R", " ", "1">>, <<"E", "0", "1">>}

\* a v3 id of a system the header does not declare
UndeclaredSat == <<"J", "0", "1">>

\* the satellite lists of a v2 epoch record
SatLists ==
    UNION {[1 .. n -> ListedSats(ObsFileV2)] : n \in 0 .. MaxSats}

\* int() of one character of an id; a blank leading character is skipped
DigitOf(c) ==
    CASE c = "0" -> 0 [] c = "1" -> 1 [] c = "2" -> 2 [] c = "3" -> 3
      [] c = "4" -> 4 [] c = "5" -> 5 [] c = "6" -> 6 [] c = "7" -> 7
      [] c = "8" -> 8 [] c = "9" -> 9 [] c = " " -> 0

\* int(satellite[1:])
SlotOf(satellite) == 10 * DigitOf(satellite[2]) + DigitOf(satellite[3])

\* rinex.py:311-312: a blank system letter means GPS
V2SatelliteId(listed) ==
    IF listed[1] = " " THEN <<"G", listed[2], listed[3]>> ELSE listed

\* rinex.py:611-612: sat.replace(' ', '0')
V3SatelliteId(listed) ==
    [i \in 1 .. 3 |-> IF listed[i] = " " THEN "0" ELSE listed[i]]

\* the observation fields of a satellite's lines: all numeric, the first
\* field blank, or text that is no number
ObsRows == {"full", "blank1", "junk"}

\* field i of a row: a number with its LLI and signal strength digits, a
\* blank field, or text
ObsField(row, i) ==
    IF row = "junk" THEN [text |-> "junk", value |-> 0, lli |-> 0, ss |-> 0]
    ELSE IF row = "blank1" /\ i = 1
    THEN [text |-> "blank", value |-> 0, lli |-> 0, ss |-> 0]
    ELSE [text |-> "num", value |-> i, lli |-> (i + 2) % 8, ss |-> 7]

\* ObsFile._get_num_value: (value, lli, sig_strength) of a v2 field, blank
\* parts are 0; float() and int() of text raise ValueError
get_num_value(obs_set) ==
    IF obs_set.text = "junk" THEN [ok |-> FALSE, value |-> 0, lli |-> 0, ss |-> 0]
    ELSE [ok |-> TRUE, value |-> obs_set.value, lli |-> obs_set.lli,
          ss |-> obs_set.ss]

\* the record _parse_obs_record builds of a v3 field: a blank chunk and
\* text both give 0
V3Observation(obs_set) ==
    IF obs_set.text = "num"
    THEN [value |-> obs_set.value, lli |-> obs_set.lli, ss |-> obs_set.ss]
    ELSE [value |-> 0, lli |-> 0, ss |-> 0]

\* str(err) of a FetchSlotFreqNumError, and the message of the v2 warning
\* about a system without observables
FetchErrorMessageGeneric(kind, slot) ==
    <<"Can't find GLONASS frequency number", slot>>

FetchErrorMessage(kind, slot) ==
    IF kind = "SlotNotFound" THEN <<"Can't find slot", slot>>
    ELSE <<"Can't find GLONASS frequency number", slot>>

\* what one pass of the satellite loop ends in: a record is yielded, the
\* satellite is skipped (continue, after a warning if there is one), or an
\* exception leaves next_tec
Yield(record) ==
    [kind |-> "yield", tec |-> record, warned |-> None, err |-> None]

SkipSatelliteRaise(msg) ==
    [kind |-> "raise", tec |-> None, warned |-> None, err |-> "ValueError"]

SkipSatellite(msg) ==
    [kind |-> "continue", tec |-> None, warned |-> msg, err |-> None]

Raise(err) ==
    [kind |-> "raise", tec |-> None, warned |-> None, err |-> err]

\* rinex.py:299 / rinex.py:788: the event branch of an epoch record
IsEventFromOne(flag) == flag > 0

IsEvent(flag) == flag > 1

\* the epoch flags of the records drawn: normal ones and events
EpochFlags == {0, 1, 2}

\* the position of the v2 satellite loop: item i of the list
V2ListedSatReversed(list, i) == list[Len(list) + 1 - i]

V2ListedSat(list, i) == list[i]

\* d[key] = value of a dict
Put(d, key, value) ==
    [k \in DOMAIN d \cup {key} |-> IF k = key THEN value ELSE d[k]]

\* rinex.py:338-376: the index pairs of a system's phase and pseudorange
\* observables, from the epoch's dicts or resolved now; a ValueError of
\* the resolver (ok = FALSE) leaves the dicts as filled so far
V2Resolve(all_types, sat_sys, phase_index, pr_index) ==
    LET phase == IF sat_sys \in DOMAIN phase_index THEN <<phase_index[sat_sys]>>
                 ELSE LET indices == get_obs_indices(
                              all_types, BAND_PRIORITY(sat_sys),
                              PHASE_OBS_PRIORITY)
                      IN IF indices = <<>> THEN <<>> ELSE <<indices[1]>>
        pr == IF sat_sys \in DOMAIN pr_index THEN <<pr_index[sat_sys]>>
              ELSE LET indices == get_obs_indices(
                           all_types, BAND_PRIORITY(sat_sys),
                           PR_OBS_PRIORITY)
                   IN IF indices = <<>> THEN <<>> ELSE <<indices[1]>>
    IN IF phase = <<>>
       THEN [ok |-> FALSE, phase_obs_index |-> phase_index,
             pr_obs_index |-> pr_index]
       ELSE IF pr = <<>>
       THEN [ok |-> FALSE,
             phase_obs_index |-> Put(phase_index, sat_sys, phase[1]),
             pr_obs_index |-> pr_index]
       ELSE [ok |-> TRUE,
             phase_obs_index |-> Put(phase_index, sat_sys, phase[1]),
             pr_obs_index |-> Put(pr_index, sat_sys, pr[1])]

\* rinex.py:378-403: the record of a satellite with its codes and values
V2Record(ts, satellite, freq_num, all_types, row, phase, pr) ==
    LET p1 == get_num_value(ObsField(row, phase[1]))
        p2 == get_num_value(ObsField(row, phase[2]))
        r1 == get_num_value(ObsField(row, pr[1]))
        r2 == get_num_value(ObsField(row, pr[2]))
    IN IF ~(p1.ok /\ p2.ok /\ r1.ok /\ r2.ok) THEN Raise("ValueError")
       ELSE Yield([NewTec(ts, satellite, freq_num) EXCEPT
                     !.phase_code = <<all_types[phase[1]], all_types[phase[2]]>>,
                     !.p_range_code = <<all_types[pr[1]], all_types[pr[2]]>>,
                     !.phase = <<p1.value, p2.value>>,
                     !.lli = <<p1.lli % 2, p2.lli % 2>>,
                     !.signal_strength = p1.ss,
                     !.p_range = <<r1.value, r2.value>>])

\* rinex.py:323-403: one pass of the v2 satellite loop after the
\* satellite's lines have been read
V2Pass(ts, satellite, row, table, all_types, phase_index, pr_index) ==
    LET sat_sys == SatSys(satellite)
        fetched == IF sat_sys = GLO
                   THEN fetch_slot_freq_num(ts, SlotOf(satellite), table)
                   ELSE [kind |-> "ok", freq_num |-> None, table |-> table]
        res == V2Resolve(all_types, sat_sys, phase_index, pr_index)
    IN IF fetched.kind # "ok"
       THEN [out |-> IF fetched.kind = "IndexError" THEN Raise("IndexError")
                     ELSE SkipSatellite(
                            FetchErrorMessage(fetched.kind, SlotOf(satellite))),
             table |-> fetched.table,
             phase_obs_index |-> phase_index, pr_obs_index |-> pr_index]
       ELSE [out |-> IF ~res.ok
                     THEN SkipSatellite(<<"Can't find observable", sat_sys>>)
                     ELSE V2Record(ts, satellite, fetched.freq_num, all_types,
                                   row, res.phase_obs_index[sat_sys],
                                   res.pr_obs_index[sat_sys]),
             table |-> fetched.table,
             phase_obs_index |-> res.phase_obs_index,
             pr_obs_index |-> res.pr_obs_index]

\* rinex.py:823-835: the record of a v3 satellite
V3Record(ts, satellite, freq_num, sys_obs_types, row, ind) ==
    LET p1 == V3Observation(ObsField(row, ind.phase[1]))
        p2 == V3Observation(ObsField(row, ind.phase[2]))
        r1 == V3Observation(ObsField(row, ind.pseudo_range[1]))
        r2 == V3Observation(ObsField(row, ind.pseudo_range[2]))
    IN Yield([NewTec(ts, satellite, freq_num) EXCEPT
                !.phase_code = <<sys_obs_types[ind.phase[1]],
                                 sys_obs_types[ind.phase[2]]>>,
                !.p_range_code = <<sys_obs_types[ind.pseudo_range[1]],
                                   sys_obs_types[ind.pseudo_range[2]]>>,
                !.phase = <<p1.value, p2.value>>,
                !.lli = <<p1.lli % 2, p2.lli % 2>>,
                !.p_range = <<r1.value, r2.value>>])

\* the indices resolved for a system are not kept
V3ResolvedForgotten(indices, sat_sys, ind) == indices

\* rinex.py:817-821: obs_indices[sat_sys] = the indices resolved
V3Resolved(indices, sat_sys, ind) == Put(indices, sat_sys, ind)

\* rinex.py:795-837: the ways one pass of the v3 satellite loop may go
\* after the satellite's line has been parsed (several if the resolver
\* has a choice of channels); attempted tells whether the pass called
\* indices_according_priority.  The ValueError of the resolver is caught
\* and the satellite skipped with nothing assigned to obs_indices
\* (rinex.py:822-824)
V3Passes(ts, satellite, row, table, catalog, indices) ==
    LET sat_sys == SatSys(satellite)
        fetched == IF sat_sys = GLO
                   THEN fetch_slot_freq_num(ts, SlotOf(satellite), table)
                   ELSE [kind |-> "ok", freq_num |-> None, table |-> table]
        found == IF sat_sys \in DOMAIN indices THEN {indices[sat_sys]}
                 ELSE indices_according_priority(catalog, sat_sys)
    IN IF fetched.kind # "ok"
       THEN {[out |-> IF fetched.kind = "IndexError" THEN Raise("IndexError")
                      ELSE SkipSatellite(
                             FetchErrorMessage(fetched.kind, SlotOf(satellite))),
              table |-> fetched.table, obs_indices |-> indices,
              attempted |-> FALSE]}
       ELSE IF found = {}
       THEN {[out |-> SkipSatellite(None),
              table |-> fetched.table,
              obs_indices |-> indices,
              attempted |-> sat_sys \notin DOMAIN indices]}
       ELSE {[out |-> V3Record(ts, satellite, fetched.freq_num,
                               catalog[sat_sys], row, ind),
              table |-> fetched.table,
              obs_indices |-> V3Resolved(indices, sat_sys, ind),
              attempted |-> sat_sys \notin DOMAIN indices] :
                ind \in found}

\* the count of an epoch record taken on trust
V2CountTrusted(list, n) == TRUE

\* rinex.py:246-247: assert len(list_of_sats) == n_of_sats
V2CountAsserted(list, n) == Len(list) = n

\* the calls of indices_according_priority made so far for a system
Attempts(counts, sat_sys) ==
    IF sat_sys \in DOMAIN counts THEN counts[sat_sys] ELSE 0

epochVars == <<epoch_time, epoch_flag, n_of_sats, list_of_sats, sat_i>>
cacheVars == <<phase_obs_index, pr_obs_index, obs_indices>>
histVars == <<listing, handled, emitted, mismatch, attempts>>

\* a decoder after construction: the header has been read and skipped
InitDec ==
    /\ reader \in {ObsFileV2, ObsFileV3}
    /\ obs_types \in HeaderCatalogs(reader)
    /\ \E arg \in GloFreqNumsArgs : freq_nums = InitGloFreqNums(arg)
    /\ dec_pc = "epoch"
    /\ dec_err = None
    /\ lines_read = 0
    /\ epoch_time = None
    /\ epoch_flag = 0
    /\ n_of_sats = 0
    /\ list_of_sats = <<>>
    /\ sat_i = 0
    /\ phase_obs_index = <<>>
    /\ pr_obs_index = <<>>
    /\ obs_indices = <<>>
    /\ warned = None
    /\ listing = <<>>
    /\ handled = 0
    /\ emitted = <<>>
    /\ mismatch = None
    /\ attempts = <<>>
    /\ fetch_in = None
    /\ fetch_out = None
    /\ TecIdle
    /\ NavIdle
    /\ OpenIdle
    /\ VeIdle

\* next(self.fh) on an exhausted stream inside the generator: the
\* StopIteration ends the iteration silently (Python before 3.7) or
\* becomes a RuntimeError (PEP 479)
EndOfStream ==
    /\ dec_pc' = "stopped"
    /\ dec_err' \in {<<"StopIteration">>, <<"RuntimeError">>}

\* an exception leaves next_tec
Stopped(err) ==
    /\ dec_pc' = "stopped"
    /\ dec_err' = <<err>>

\* ObsFileV2._parse_epoch_record and the head of the loop of next_tec
V2ParseEpochRecord ==
    /\ reader = ObsFileV2
    /\ dec_pc = "epoch"
    /\ tec' = None
    /\ warned' = None
    /\ UNCHANGED <<reader, obs_types, fetchVars, navVars, openVars, veVars, obs_indices,
                   handled, emitted>>
    /\ \/ \* no line is left
          /\ EndOfStream
          /\ UNCHANGED <<lines_read, epochVars, phase_obs_index,
                         pr_obs_index, listing, mismatch, attempts>>
       \/ \* flag or count is no integer, or the date is no date
          /\ lines_read < MaxLines
          /\ lines_read' = lines_read + 1
          /\ Stopped("ValueError")
          /\ UNCHANGED <<epochVars, phase_obs_index, pr_obs_index, listing,
                         mismatch,
                         attempts>>
       \/ \* an event record
          /\ lines_read < MaxLines
          /\ \E flag \in EpochFlags, n \in 0 .. MaxEventCount :
                /\ IsEvent(flag)
                /\ epoch_time' = None
                /\ epoch_flag' = flag
                /\ n_of_sats' = n
                /\ list_of_sats' = None
          /\ lines_read' = lines_read + 1
          /\ dec_pc' = "event"
          /\ UNCHANGED <<dec_err, sat_i, phase_obs_index, pr_obs_index,
                         listing, mismatch, attempts>>
       \/ \* a normal record; the continuation lines are read before the
          \* count is compared with the ids found
          /\ \E flag \in EpochFlags, n \in DeclaredCounts, ts \in EpochTimes,
                sats \in SatLists :
                LET rows == V2EpochRows(n)
                IN /\ ~IsEvent(flag)
                   /\ lines_read + rows <= MaxLines
                   /\ lines_read' = lines_read + rows
                   /\ UNCHANGED attempts
                   /\ mismatch' = IF Len(sats) # n THEN <<"ids", n>>
                                   ELSE mismatch
                   /\ IF ~V2CountAsserted(sats, n)
                      THEN /\ Stopped("AssertionError")
                           /\ UNCHANGED <<epochVars, phase_obs_index,
                                          pr_obs_index, listing>>
                      ELSE /\ epoch_time' = <<ts>>
                           /\ epoch_flag' = flag
                           /\ n_of_sats' = n
                           /\ list_of_sats' = sats
                           /\ sat_i' = 1
                           /\ phase_obs_index' = <<>>
                           /\ pr_obs_index' = <<>>
                           /\ listing' = listing \o
                                [i \in 1 .. Len(sats) |-> <<ts, sats[i]>>]
                           /\ dec_pc' = IF sats = <<>> THEN "epoch"
                                        ELSE "sats"
                           /\ UNCHANGED dec_err

\* ObsFile.handle_event: n_of_sats lines are read and dropped
handle_event ==
    /\ dec_pc = "event"
    /\ tec' = None
    /\ warned' = None
    /\ UNCHANGED <<reader, obs_types, fetchVars, navVars, openVars, veVars, epochVars,
                   cacheVars, histVars>>
    /\ \/ /\ lines_read + n_of_sats <= MaxLines
          /\ lines_read' = lines_read + n_of_sats
          /\ dec_pc' = "epoch"
          /\ UNCHANGED dec_err
       \/ \* the stream ends before n_of_sats lines have been read
          \E k \in 0 .. n_of_sats - 1 :
             /\ lines_read + k <= MaxLines
             /\ lines_read' = lines_read + k
             /\ EndOfStream

\* one pass of the satellite loop of ObsFileV2.next_tec
V2Satellite ==
    /\ reader = ObsFileV2
    /\ dec_pc = "sats"
    /\ UNCHANGED <<reader, obs_types, fetch_in, fetch_out, navVars, openVars, veVars,
                   epoch_time, epoch_flag, n_of_sats, list_of_sats,
                   obs_indices, listing, mismatch, attempts>>
    /\ LET satellite == V2SatelliteId(V2ListedSat(list_of_sats, sat_i))
           rows == V2SatRows(Len(obs_types))
       IN \/ \* the stream ends within the satellite's lines
             /\ \E k \in 0 .. rows - 1 :
                   /\ lines_read + k <= MaxLines
                   /\ lines_read' = lines_read + k
             /\ EndOfStream
             /\ tec' = None
             /\ warned' = None
             /\ UNCHANGED <<freq_nums, sat_i, phase_obs_index, pr_obs_index,
                            handled, emitted>>
          \/ /\ lines_read + rows <= MaxLines
             /\ lines_read' = lines_read + rows
             /\ handled' = handled + 1
             /\ \E row \in ObsRows :
                   LET pass == V2Pass(epoch_time[1], satellite, row, freq_nums,
                                      obs_types, phase_obs_index, pr_obs_index)
                   IN /\ freq_nums' = pass.table
                      /\ phase_obs_index' = pass.phase_obs_index
                      /\ pr_obs_index' = pass.pr_obs_index
                      /\ tec' = pass.out.tec
                      /\ warned' = pass.out.warned
                      /\ emitted' = IF pass.out.kind = "yield"
                                    THEN Append(emitted,
                                                <<pass.out.tec.timestamp,
                                                  pass.out.tec.satellite,
                                                  handled + 1>>)
                                    ELSE emitted
                      /\ IF pass.out.kind = "raise"
                         THEN Stopped(pass.out.err) /\ UNCHANGED sat_i
                         ELSE /\ sat_i' = sat_i + 1
                              /\ dec_pc' = IF sat_i = Len(list_of_sats)
                                           THEN "epoch" ELSE "sats"
                              /\ UNCHANGED dec_err

\* the head of the loop of ObsFileV3.next_tec with _parse_epoch_record
V3ParseEpochRecord ==
    /\ reader = ObsFileV3
    /\ dec_pc = "epoch"
    /\ tec' = None
    /\ warned' = None
    /\ UNCHANGED <<reader, obs_types, fetchVars, navVars, openVars, veVars, list_of_sats, sat_i,
                   cacheVars, listing, handled, emitted>>
    /\ \/ \* no line is left
          /\ EndOfStream
          /\ UNCHANGED <<lines_read, epoch_time, epoch_flag, n_of_sats,
                         mismatch,
                         attempts>>
       \/ \* a line without the '>' marker, or with a flag or count that
          \* is no integer
          /\ lines_read < MaxLines
          /\ lines_read' = lines_read + 1
          /\ Stopped("ValueError")
          /\ UNCHANGED <<epoch_time, epoch_flag, n_of_sats, mismatch, attempts>>
       \/ \* a satellite line: the epoch before it has more satellite
          \* lines than it declared
          /\ epoch_time # None
          /\ ~IsEvent(epoch_flag)
          /\ lines_read < MaxLines
          /\ lines_read' = lines_read + 1
          /\ UNCHANGED attempts
          /\ mismatch' = <<"more lines">>
          /\ Stopped("ValueError")
          /\ UNCHANGED <<epoch_time, epoch_flag, n_of_sats>>
       \/ \* an event record, with or without a date
          /\ lines_read < MaxLines
          /\ lines_read' = lines_read + 1
          /\ \E flag \in EpochFlags, n \in 0 .. MaxEventCount,
                epoch \in {None, <<EventTime>>} :
                /\ IsEvent(flag)
                /\ epoch_time' = epoch
                /\ epoch_flag' = flag
                /\ n_of_sats' = n
          /\ dec_pc' = "event"
          /\ UNCHANGED <<dec_err, mismatch, attempts>>
       \/ \* a normal record
          /\ lines_read < MaxLines
          /\ lines_read' = lines_read + 1
          /\ \E flag \in EpochFlags, n \in 0 .. MaxSats, ts \in EpochTimes :
                /\ ~IsEvent(flag)
                /\ epoch_time' = <<ts>>
                /\ epoch_flag' = flag
                /\ n_of_sats' = n
                /\ dec_pc' = IF n = 0 THEN "epoch" ELSE "sats"
          /\ UNCHANGED <<dec_err, mismatch, attempts>>

\* one pass of the satellite loop of ObsFileV3.next_tec
V3Satellite ==
    /\ reader = ObsFileV3
    /\ dec_pc = "sats"
    /\ n_of_sats' = n_of_sats - 1
    /\ UNCHANGED <<reader, obs_types, fetch_in, fetch_out, navVars, openVars, veVars,
                   epoch_time, epoch_flag, list_of_sats, sat_i,
                   phase_obs_index, pr_obs_index>>
    /\ \/ \* no line is left
          /\ EndOfStream
          /\ tec' = None
          /\ warned' = None
          /\ UNCHANGED <<freq_nums, lines_read, obs_indices, histVars>>
       \/ \* a line whose first character is no system of the header
          /\ lines_read < MaxLines
          /\ lines_read' = lines_read + 1
          /\ UndeclaredSat[1] \notin DOMAIN obs_types
          /\ Stopped("ValueError")
          /\ tec' = None
          /\ warned' = None
          /\ UNCHANGED <<freq_nums, obs_indices, histVars>>
       \/ \* the next epoch record: the epoch has fewer satellite lines
          \* than it declared, and '>' is no system of the header
          /\ lines_read < MaxLines
          /\ lines_read' = lines_read + 1
          /\ UNCHANGED attempts
          /\ mismatch' = <<"fewer lines">>
          /\ ">" \notin DOMAIN obs_types
          /\ Stopped("ValueError")
          /\ tec' = None
          /\ warned' = None
          /\ UNCHANGED <<freq_nums, obs_indices, listing, handled, emitted>>
       \/ /\ lines_read < MaxLines
          /\ lines_read' = lines_read + 1
          /\ handled' = handled + 1
          /\ UNCHANGED mismatch
          /\ \E listed \in ListedSats(ObsFileV3), row \in ObsRows :
                /\ listing' = Append(listing, <<epoch_time[1], listed>>)
                /\ \E pass \in V3Passes(epoch_time[1], V3SatelliteId(listed),
                                       row, freq_nums, obs_types, obs_indices) :
                      /\ freq_nums' = pass.table
                      /\ obs_indices' = pass.obs_indices
                      /\ attempts' =
                            IF pass.attempted
                            THEN Put(attempts, SatSys(V3SatelliteId(listed)),
                                     Attempts(attempts,
                                              SatSys(V3SatelliteId(listed)))
                                        + 1)
                            ELSE attempts
                      /\ tec' = pass.out.tec
                      /\ warned' = pass.out.warned
                      /\ emitted' = IF pass.out.kind = "yield"
                                    THEN Append(emitted,
                                                <<pass.out.tec.timestamp,
                                                  pass.out.tec.satellite,
                                                  handled + 1>>)
                                    ELSE emitted
                      /\ IF pass.out.kind = "raise"
                         THEN Stopped(pass.out.err)
                         ELSE /\ dec_pc' = IF n_of_sats = 1
                                           THEN "epoch" ELSE "sats"
                              /\ UNCHANGED dec_err

Init == InitDec

Next ==
    \/ V2ParseEpochRecord
    \/ V2Satellite
    \/ V3ParseEpochRecord
    \/ V3Satellite
    \/ handle_event

Spec == Init /\ [][Next]_vars

\* the consumer pulls records until the decoder stops: a step that can be
\* taken is taken
SpecLive == Init /\ [][Next]_vars /\ WF_vars(Next)

\* ------------------------------------------------- claims C5, C6, C7, C8
\* the satellite a listing entry names, as its decoder identifies it
ListedId(entry) ==
    IF reader = ObsFileV2 THEN V2SatelliteId(entry[2])
    ELSE V3SatelliteId(entry[2])

\* the GLONASS channel of a listed satellite cannot be resolved at the
\* timestamp of its epoch
ChannelUnresolved(entry) ==
    /\ SatSys(ListedId(entry)) = GLO
    /\ fetch_slot_freq_num(entry[1], SlotOf(ListedId(entry)), freq_nums).kind
         \in {"SlotNotFound", "ChannelNotFound"}

\* the catalog holds no viable band/code combination for a system
NoViableCombination(sat_sys) ==
    IF reader = ObsFileV2
    THEN \/ get_obs_indices(obs_types, BAND_PRIORITY(sat_sys),
                            PHASE_OBS_PRIORITY) = <<>>
         \/ get_obs_indices(obs_types, BAND_PRIORITY(sat_sys),
                            PR_OBS_PRIORITY) = <<>>
    ELSE indices_according_priority(obs_types, sat_sys) = {}

\* a record has been yielded for the i-th listed satellite
EmittedFor(i) == \E k \in 1 .. Len(emitted) : emitted[k][3] = i

\* the i-th listed satellite has been processed without an exception
PassedOver(i) == i < handled \/ (i = handled /\ dec_pc # "stopped")

\* C5: in both decoders, a satellite whose GLONASS channel cannot be
\* resolved at the epoch timestamp, or whose system has no viable band/code
\* combination, gets no record, and the iteration goes on with the next
\* satellite or epoch without an exception; every other satellite that is
\* processed still gets its record.
C5_SkipAndContinue ==
    /\ [](\A i \in 1 .. handled :
            IF ChannelUnresolved(listing[i])
               \/ NoViableCombination(SatSys(ListedId(listing[i])))
            THEN ~EmittedFor(i)
            ELSE PassedOver(i) => EmittedFor(i))
    /\ [][(/\ handled' = handled + 1
           /\ \/ ChannelUnresolved(listing'[handled'])
              \/ NoViableCombination(SatSys(ListedId(listing'[handled']))))
          => /\ dec_pc' \in {"sats", "epoch"}
             /\ dec_err' = None
             /\ tec' = None
             /\ emitted' = emitted]_vars

\* a table is there, a GLONASS satellite was skipped because its channel is
\* not resolvable on the epoch's day, a Galileo satellite because it has no
\* second band, or both, and a satellite listed later got its record
C5_Witness ==
    /\ freq_nums # <<>>
    /\ \E i, j \in 1 .. handled :
          /\ i < j
          /\ \/ ChannelUnresolved(listing[i])
             \/ NoViableCombination(SatSys(ListedId(listing[i])))
          /\ ~EmittedFor(i)
          /\ EmittedFor(j)

\* C6: a decoder built without a table (absent or empty) never yields a
\* record of a GLONASS satellite, warns "Can't find slot" for each GLONASS
\* satellite it processes, and still yields the records of the other
\* satellites.
C6_NoTableNoGlonass ==
    /\ [](freq_nums = <<>> =>
            /\ \A k \in 1 .. Len(emitted) : SatSys(emitted[k][2]) # GLO
            /\ tec # None => SatSys(tec.satellite) # GLO
            /\ \A i \in 1 .. handled :
                  (/\ SatSys(ListedId(listing[i])) # GLO
                   /\ ~NoViableCombination(SatSys(ListedId(listing[i])))
                   /\ PassedOver(i)) => EmittedFor(i))
    /\ [][(/\ freq_nums = <<>>
           /\ handled' = handled + 1
           /\ SatSys(ListedId(listing'[handled'])) = GLO)
          => /\ warned' = <<"Can't find slot",
                            SlotOf(ListedId(listing'[handled']))>>
             /\ tec' = None
             /\ dec_err' = None]_vars

\* without a table, a GLONASS satellite was skipped and the satellite
\* listed right after it got its record
C6_Witness ==
    /\ freq_nums = <<>>
    /\ handled >= 2
    /\ SatSys(ListedId(listing[handled - 1])) = GLO
    /\ ~EmittedFor(handled - 1)
    /\ EmittedFor(handled)
    /\ tec # None

\* C7: the records are yielded in file order; each carries the timestamp of
\* the epoch record it is listed under and the id of its own satellite, and
\* no listed satellite is yielded twice or out of its place.
C7_FileOrder ==
    /\ \A k \in 1 .. Len(emitted) :
          /\ emitted[k][3] \in 1 .. handled
          /\ emitted[k][1] = listing[emitted[k][3]][1]
          /\ emitted[k][2] = ListedId(listing[emitted[k][3]])
    /\ \A k \in 1 .. Len(emitted) - 1 : emitted[k][3] < emitted[k + 1][3]
    /\ tec # None =>
          /\ emitted # <<>>
          /\ tec.timestamp = emitted[Len(emitted)][1]
          /\ tec.satellite = emitted[Len(emitted)][2]
          /\ emitted[Len(emitted)][3] = handled

\* records of two epochs, or records around a skipped satellite of a list
\* whose first satellite got none
C7_Witness ==
    /\ Len(emitted) >= 1
    /\ tec # None
    /\ \/ /\ Len(emitted) = 2
          /\ emitted[1][1] # emitted[2][1]
       \/ /\ reader = ObsFileV2
          /\ emitted[Len(emitted)][3] > Len(emitted)
          /\ listing[1][2] # listing[2][2]

Line(label, num, tag, cols) ==
    [label |-> label, num |-> num, tag |-> tag, cols |-> cols]

VersionLine(v, type) == Line("RINEX VERSION / TYPE", v, type, <<>>)
TypesLine(n, codes) == Line("# / TYPES OF OBSERV", n, "", codes)
SysLine(sat_sys, n, codes) == Line("SYS / # / OBS TYPES", n, sat_sys, codes)
TimeLine == Line("TIME OF FIRST OBS", <<>>, "GPS",
                 << <<"2016">>, <<"1">> >>)
IntervalLine == Line("INTERVAL", <<>>, "", << <<".000">> >>)
EndLine == Line("END OF HEADER", <<>>, "", <<>>)

\* nine v2 codes, a full line of a types record
NineCodes ==
    << <<"L", 1>>, <<"L", 2>>, <<"C", 1>>, <<"P", 1>>, <<"P", 2>>,
       <<"D", 1>>, <<"D", 2>>, <<"S", 1>>, <<"S", 2>> >>

\* the versions a first line may carry, in hundredths
OpenVersions == {199} \cup (200 .. 213) \cup (300 .. 304)

\* rnx: the reader class of a version, None if there is none.  The keys of
\* rinex_reader are tuples of floats and the test is membership.
RinexReaderRange(rinex_version) ==
    IF rinex_version >= 200 /\ rinex_version <= 212 THEN <<ObsFileV2>>
    ELSE IF rinex_version >= 300 /\ rinex_version <= 303 THEN <<ObsFileV3>>
    ELSE None

RinexReader(rinex_version) ==
    IF rinex_version \in {200, 210, 211, 212} THEN <<ObsFileV2>>
    ELSE IF rinex_version \in {300, 301, 302, 303} THEN <<ObsFileV3>>
    ELSE None

\* str.upper() of a file type character
Upper(c) == CASE c = "o" -> "O" [] c = "n" -> "N" [] OTHER -> c

\* rnx up to the call of the reader class: the class and version, or the
\* exception raised
rnx(file) ==
    IF file = <<>> THEN [kind |-> "StopIteration"]
    ELSE LET row == file[1]
         IN IF row.num = <<>> THEN [kind |-> "ValueError"]
            ELSE IF Upper(row.tag) # "O" THEN [kind |-> "Exception"]
            ELSE IF RinexReader(row.num[1]) = None
            THEN [kind |-> "Exception"]
            ELSE [kind |-> "ok", cls |-> RinexReader(row.num[1])[1],
                  version |-> row.num[1]]

RECURSIVE V2ReadRows(_, _, _, _)
\* rinex.py:271-275: rows_to_read more rows, whatever their label, are
\* read and their columns 6-60 appended
V2ReadRows(file, i, rows_to_read, codes) ==
    IF rows_to_read <= 0 THEN [kind |-> "ok", codes |-> codes, next |-> i]
    ELSE IF i > Len(file) THEN [kind |-> "StopIteration"]
    ELSE V2ReadRows(file, i + 1, rows_to_read - 1, codes \o file[i].cols)

RECURSIVE V2ScanTypes(_, _, _)
\* rinex.py:263-276: the loop "while not obs_types" from row i on
V2ScanTypes(file, i, num_of_types) ==
    IF i > Len(file) THEN [kind |-> "StopIteration"]
    ELSE LET row == file[i]
         IN IF row.label # "# / TYPES OF OBSERV"
            THEN V2ScanTypes(file, i + 1, num_of_types)
            ELSE IF row.num = <<>> THEN [kind |-> "ValueError"]
            ELSE LET n == row.num[1]
                     got == IF n > 9
                            THEN V2ReadRows(file, i + 1, Ceil(n, 9) - 1,
                                            row.cols)
                            ELSE [kind |-> "ok", codes |-> row.cols,
                                  next |-> i + 1]
                 IN IF got.kind # "ok" THEN got
                    ELSE IF got.codes = <<>>
                    THEN V2ScanTypes(file, got.next, n)
                    ELSE [kind |-> "ok", num_of_types |-> n,
                          obs_types |-> got.codes]

\* rinex.py:285-286: assert num_of_types == len(obs_types)
V2CountChecked(num_of_types, codes) == num_of_types = Len(codes)

\* ObsFileV2.retrieve_obs_types, reading on from row i
V2RetrieveObsTypes(file, i) ==
    LET scan == V2ScanTypes(file, i, 0)
    IN IF scan.kind # "ok" THEN scan
       ELSE IF ~V2CountChecked(scan.num_of_types, scan.obs_types)
       THEN [kind |-> "AssertionError"]
       ELSE [kind |-> "ok", obs_types |-> scan.obs_types]

RECURSIVE V3CollectRows(_, _, _)
\* rinex.py:665-671: up to END OF HEADER the rows labelled
\* SYS / # / OBS TYPES are collected
V3CollectRows(file, i, rows) ==
    IF i > Len(file) THEN [kind |-> "StopIteration"]
    ELSE IF file[i].label = "END OF HEADER" THEN [kind |-> "ok", rows |-> rows]
    ELSE V3CollectRows(file, i + 1,
                       IF file[i].label = "SYS / # / OBS TYPES"
                       THEN Append(rows, file[i]) ELSE rows)

RECURSIVE V3Records(_, _)
\* rinex.py:681-689: a row with blank leading columns continues the record
\* before it
V3Records(rows, records) ==
    IF rows = <<>> THEN [kind |-> "ok", records |-> records]
    ELSE IF Head(rows).tag = ""
    THEN IF records = <<>> THEN [kind |-> "IndexError"]
         ELSE V3Records(Tail(rows),
                [records EXCEPT ![Len(records)].cols = @ \o Head(rows).cols])
    ELSE V3Records(Tail(rows), Append(records, Head(rows)))

\* the BeiDou correction applied at every version
V3CorrectedAlways(rnx_version, sat_sys, sys_obs_types) ==
    IF sat_sys = BDS
    THEN [i \in 1 .. Len(sys_obs_types) |->
            IF sys_obs_types[i][2] = 1
            THEN [sys_obs_types[i] EXCEPT ![2] = 2]
            ELSE sys_obs_types[i]]
    ELSE sys_obs_types

\* rinex.py:702-710: from 3.02 on, a BeiDou code whose second character is
\* '1' has its '1' replaced by '2' (of a code's three characters only the
\* band is a digit)
V3Corrected(rnx_version, sat_sys, sys_obs_types) ==
    IF rnx_version >= 302 /\ sat_sys = BDS
    THEN [i \in 1 .. Len(sys_obs_types) |->
            IF sys_obs_types[i][2] = 1
            THEN [sys_obs_types[i] EXCEPT ![2] = 2]
            ELSE sys_obs_types[i]]
    ELSE sys_obs_types

\* rinex.py:716-717: assert len(sys_obs_types) == num_of_obs
V3CountChecked(num_of_obs, codes) == Len(codes) = num_of_obs

RECURSIVE V3Catalog(_, _, _)
\* rinex.py:694-719: the records in order fill the dict
V3Catalog(rnx_version, records, catalog) ==
    IF records = <<>> THEN [kind |-> "ok", obs_types |-> catalog]
    ELSE LET record == Head(records)
         IN IF record.num = <<>> THEN [kind |-> "ValueError"]
            ELSE IF ~V3CountChecked(record.num[1], record.cols)
            THEN [kind |-> "AssertionError"]
            ELSE V3Catalog(rnx_version, Tail(records),
                           Put(catalog, record.tag,
                               V3Corrected(rnx_version, record.tag,
                                           record.cols)))

\* ObsFileV3.retrieve_obs_types, reading on from row i
V3RetrieveObsTypes(rnx_version, file, i) ==
    LET got == V3CollectRows(file, i, <<>>)
    IN IF got.kind # "ok" THEN got
       ELSE LET recs == V3Records(got.rows, <<>>)
            IN IF recs.kind # "ok" THEN recs
               ELSE V3Catalog(rnx_version, recs.records, <<>>)

RECURSIVE FindLabel(_, _, _)
\* the first row from i on with the label, 0 if the stream ends first
FindLabel(file, i, label) ==
    IF i > Len(file) THEN 0
    ELSE IF file[i].label = label THEN i
    ELSE FindLabel(file, i + 1, label)

\* a line of the body
BodyLine == Line("", <<>>, "", <<>>)

\* the types records of the v2 headers: the count right, too large, too
\* small; ten codes on two lines; ten declared, nine listed and an
\* INTERVAL line next; nine declared and a tenth on a continuation line
V2TypesRecords ==
    LET two == << <<"L", 1>>, <<"L", 2>> >>
        more == TypesLine(<<>>, << <<"C", 2>> >>)
    IN {<<TypesLine(<<2>>, two)>>,
        <<TypesLine(<<3>>, two)>>,
        <<TypesLine(<<1>>, two)>>,
        <<TypesLine(<<10>>, NineCodes), more>>,
        <<TypesLine(<<10>>, NineCodes), IntervalLine>>,
        <<TypesLine(<<9>>, NineCodes), more>>}

\* the types records of the v3 headers: none; GPS right; GPS and BeiDou
\* with a band 1 code; GPS with a code too few; GPS with a continuation
\* line; BeiDou with a code too many
V3TypesRecords ==
    LET gps == << <<"C", 1, "C">>, <<"L", 1, "C">> >>
        bds == << <<"C", 1, "I">>, <<"L", 7, "I">> >>
    IN {<<>>,
        <<SysLine(GPS, <<2>>, gps)>>,
        <<SysLine(GPS, <<2>>, gps), SysLine(BDS, <<2>>, bds)>>,
        <<SysLine(GPS, <<3>>, gps)>>,
        <<SysLine(GPS, <<3>>, gps), SysLine("", <<>>, << <<"L", 2, "W">> >>)>>,
        <<SysLine(GPS, <<2>>, gps), SysLine(BDS, <<1>>, bds)>>}

\* the rest of a file: with or without the time system, the end of the
\* header and a body
FileTails ==
    {<<TimeLine, EndLine, BodyLine>>, <<TimeLine, EndLine>>, <<TimeLine>>,
     <<EndLine, BodyLine>>, <<>>}

\* the files given to rnx: empty, or a first line, types records and a tail
Files ==
    {<<>>} \cup
    {<<VersionLine(v, type)>> \o types \o rest :
        v \in {<<x>> : x \in OpenVersions} \cup {<<>>},
        type \in {"O", "o", "N"},
        types \in V2TypesRecords \cup V3TypesRecords,
        rest \in FileTails}

\* ObsFile.retrieve_time_system from row i on; it ends with seek(0)
RetrieveTimeSystemNoSeek(file, i) ==
    LET at == FindLabel(file, i, "TIME OF FIRST OBS")
    IN IF at = 0 THEN [kind |-> "StopIteration"]
       ELSE [kind |-> "ok", time_system |-> file[at].tag, rewound |-> FALSE,
             at |-> at]

RetrieveTimeSystem(file, i) ==
    LET at == FindLabel(file, i, "TIME OF FIRST OBS")
    IN IF at = 0 THEN [kind |-> "StopIteration"]
       ELSE [kind |-> "ok", time_system |-> file[at].tag, rewound |-> TRUE,
             at |-> at]

InitOpen ==
    /\ open_pc = "rnx"
    /\ fh \in Files
    /\ fh_pos = 0
    /\ seeks = <<>>
    /\ open_err = None
    /\ version = None
    /\ time_system = None
    /\ FetchIdle
    /\ TecIdle
    /\ NavIdle
    /\ DecIdle
    /\ VeIdle

\* construction is aborted by an exception
OpenFailed(err) ==
    /\ open_pc' = "failed"
    /\ open_err' = <<err>>

\* rnx: the first line is read and the reader class chosen
OpenRnx ==
    /\ open_pc = "rnx"
    /\ LET r == rnx(fh)
       IN /\ fh_pos' = IF fh = <<>> THEN 0 ELSE 1
          /\ IF r.kind = "ok"
             THEN /\ reader' = r.cls
                  /\ version' = <<r.version>>
                  /\ open_pc' = "retrieve_obs_types"
                  /\ UNCHANGED open_err
             ELSE /\ OpenFailed(r.kind)
                  /\ UNCHANGED <<reader, version>>
    /\ UNCHANGED <<fh, seeks, time_system, obs_types, dec_pc, dec_err,
                   lines_read, epochVars, cacheVars, warned, histVars,
                   fetchVars, tec, navVars, veVars>>

\* retrieve_obs_types of the reader class, reading on after the first line
OpenRetrieveObsTypes ==
    /\ open_pc = "retrieve_obs_types"
    /\ LET r == IF reader = ObsFileV2 THEN V2RetrieveObsTypes(fh, fh_pos + 1)
                ELSE V3RetrieveObsTypes(version[1], fh, fh_pos + 1)
       IN IF r.kind = "ok"
          THEN /\ obs_types' = r.obs_types
               /\ fh_pos' = 0
               /\ seeks' = Append(seeks, "retrieve_obs_types")
               /\ open_pc' = "retrieve_time_system"
               /\ UNCHANGED open_err
          ELSE /\ OpenFailed(r.kind)
               /\ fh_pos' = IF r.kind = "StopIteration" THEN Len(fh)
                            ELSE fh_pos
               /\ UNCHANGED <<obs_types, seeks>>
    /\ UNCHANGED <<fh, version, time_system, reader, dec_pc, dec_err,
                   lines_read, epochVars, cacheVars, warned, histVars,
                   fetchVars, tec, navVars, veVars>>

\* ObsFile.retrieve_time_system, reading from the start
OpenRetrieveTimeSystem ==
    /\ open_pc = "retrieve_time_system"
    /\ LET r == RetrieveTimeSystem(fh, fh_pos + 1)
       IN IF r.kind = "ok"
          THEN /\ time_system' = <<r.time_system>>
               /\ fh_pos' = IF r.rewound THEN 0 ELSE r.at
               /\ seeks' = IF r.rewound
                           THEN Append(seeks, "retrieve_time_system")
                           ELSE seeks
               /\ open_pc' = "skip_header"
               /\ UNCHANGED open_err
          ELSE /\ OpenFailed(r.kind)
               /\ fh_pos' = Len(fh)
               /\ UNCHANGED <<time_system, seeks>>
    /\ UNCHANGED <<fh, version, decVars, fetchVars, tec, navVars, veVars>>

\* ObsFile.skip_header and the rest of the constructor: the for loop ends
\* after END OF HEADER or with the stream; ObsFileV3 then takes max() of
\* the lengths of its catalog lists, a ValueError if there is none
OpenSkipHeader ==
    /\ open_pc = "skip_header"
    /\ LET at == FindLabel(fh, fh_pos + 1, "END OF HEADER")
       IN fh_pos' = IF at = 0 THEN Len(fh) ELSE at
    /\ IF reader = ObsFileV3 /\ DOMAIN obs_types = {}
       THEN OpenFailed("ValueError")
       ELSE open_pc' = "ready" /\ UNCHANGED open_err
    /\ UNCHANGED <<fh, seeks, version, time_system, decVars, fetchVars, tec,
                   navVars, veVars>>

\* a next(self.fh) of next_tec or handle_event: the only use they make of
\* the stream
OpenNextLine ==
    /\ open_pc = "ready"
    /\ fh_pos < Len(fh)
    /\ fh_pos' = fh_pos + 1
    /\ UNCHANGED <<open_pc, fh, seeks, open_err, version, time_system,
                   decVars, fetchVars, tec, navVars, veVars>>

NextOpen ==
    \/ OpenRnx
    \/ OpenRetrieveObsTypes
    \/ OpenRetrieveTimeSystem
    \/ OpenSkipHeader
    \/ OpenNextLine

SpecOpen == InitOpen /\ [][NextOpen]_vars

\* the first line of the opened file names an observation file
FirstLineObs == fh # <<>> /\ fh[1].num # <<>> /\ Upper(fh[1].tag) = "O"

\* C12: the reader class is chosen once, from the first line alone: an
\* observation file (type 'O' in either case) of version 2.0, 2.1, 2.11 or
\* 2.12 is read by ObsFileV2, one of version 3.0, 3.01, 3.02 or 3.03 by
\* ObsFileV3, and this holds for as long as the file is open; every other
\* first line ends construction with an error and without a reader, a
\* catalog or a record.
C12_ReaderFromFirstLine ==
    open_pc # "rnx" =>
        IF FirstLineObs /\ fh[1].num[1] \in {200, 210, 211, 212}
        THEN version = fh[1].num /\ reader = ObsFileV2
        ELSE IF FirstLineObs /\ fh[1].num[1] \in {300, 301, 302, 303}
        THEN version = fh[1].num /\ reader = ObsFileV3
        ELSE /\ open_pc = "failed"
             /\ open_err # None
             /\ version = None
             /\ reader = None
             /\ obs_types = <<>>
             /\ emitted = <<>>

\* a version 2.11 file has been given its ObsFileV2 and is being read on
C12_Witness ==
    /\ open_pc = "retrieve_time_system"
    /\ fh[1].num = <<211>>
    /\ reader = ObsFileV2
    /\ seeks # <<>>

\* C12 as stated: every version from 2.0 to 2.12 and from 3.0 to 3.03 is
\* accepted, and every type other than 'O' aborts
C12_EveryVersionInRange ==
    (open_pc # "rnx" /\ fh # <<>> /\ fh[1].num # <<>>) =>
        LET v == fh[1].num[1]
            inRange == (200 <= v /\ v <= 212) \/ (300 <= v /\ v <= 303)
        IN (inRange /\ fh[1].tag = "O") <=> version # None

\* the codes a header lists on its lines of the given label, in file order
RECURSIVE ListedCodes(_, _, _)
ListedCodes(file, i, label) ==
    IF i > Len(file) THEN <<>>
    ELSE (IF file[i].label = label THEN file[i].cols ELSE <<>>)
         \o ListedCodes(file, i + 1, label)

\* the count the first line of the given label declares
DeclaredCount(file, label) == file[FindLabel(file, 1, label)].num[1]

\* C13: a catalog is built only when the number of codes listed equals
\* the declared count.  For a v2 header: once retrieve_obs_types has
\* returned, the codes on the '# / TYPES OF OBSERV' lines are as many as
\* the first of these lines declares, and the catalog has that length.
C13_CountMismatchFatal ==
    (seeks # <<>> /\ reader = ObsFileV2) =>
        /\ Len(obs_types) = DeclaredCount(fh, "# / TYPES OF OBSERV")
        /\ Len(ListedCodes(fh, 1, "# / TYPES OF OBSERV")) =
                DeclaredCount(fh, "# / TYPES OF OBSERV")

\* the types records of a v3 header as declared, continuation rows joined
DeclaredRecords(file) ==
    V3Records(V3CollectRows(file, 2, <<>>).rows, <<>>).records

\* C15: in the catalog of an ObsFileV3 every code is stored as declared,
\* except that at version 3.02 or later a BeiDou code of band 1 is stored
\* with band 2, its type and channel letters kept.
C15_BeiDouBand ==
    (seeks # <<>> /\ reader = ObsFileV3) =>
        \A k \in 1 .. Len(DeclaredRecords(fh)) :
            LET record == DeclaredRecords(fh)[k]
                stored == obs_types[record.tag]
            IN /\ Len(stored) = Len(record.cols)
               /\ \A i \in 1 .. Len(stored) :
                    LET code == record.cols[i]
                    IN IF version[1] >= 302 /\ record.tag = "C"
                          /\ code[2] = 1
                       THEN stored[i] = <<code[1], 2, code[3]>>
                       ELSE stored[i] = code

\* a 3.02 header declared C1I for BeiDou and the catalog holds C2I, next
\* to an L7I kept as it is
C15_Witness ==
    /\ seeks # <<>>
    /\ reader = ObsFileV3
    /\ version = <<302>>
    /\ \E k \in 1 .. Len(DeclaredRecords(fh)) :
            /\ DeclaredRecords(fh)[k].tag = "C"
            /\ DeclaredRecords(fh)[k].cols[1] = <<"C", 1, "I">>
    /\ obs_types["C"] = << <<"C", 2, "I">>, <<"L", 7, "I">> >>

\* C20: a constructed decoder has rewound its stream exactly twice, first
\* at the end of retrieve_obs_types and then at the end of
\* retrieve_time_system, and since the second rewind the header has been
\* skipped; once it is constructed a step only moves the position forward
\* and adds no rewind.
C20_TwoRewinds ==
    /\ [](open_pc = "ready" =>
            /\ seeks = <<"retrieve_obs_types", "retrieve_time_system">>
            /\ fh_pos >= FindLabel(fh, 1, "TIME OF FIRST OBS")
            /\ fh_pos > 0)
    /\ [][open_pc = "ready" => (fh_pos' >= fh_pos /\ seeks' = seeks)]_vars

\* the decoder is constructed and the line after the header has been read
C20_Witness ==
    /\ open_pc = "ready"
    /\ Len(seeks) = 2
    /\ fh_pos = Len(fh)
    /\ fh[fh_pos] = BodyLine
    /\ fh[fh_pos - 1] = EndLine

----------------------------------------------------------------------------
\* dtutils.py: validate_epoch
\*
\* An epoch is the list [year, month, day, hour, min, sec, microsec]; a
\* datetime is the record of the same fields.

IsLeap(y) == (y % 4 = 0 /\ y % 100 # 0) \/ y % 400 = 0

DaysInMonth(y, m) ==
    IF m = 2 THEN (IF IsLeap(y) THEN 29 ELSE 28)
    ELSE IF m \in {4, 6, 9, 11} THEN 30
    ELSE 31

\* datetime.datetime(*epoch): ValueError for a field out of its range
DatetimeValid(e) ==
    /\ e[1] >= 1 /\ e[1] <= 9999
    /\ e[2] >= 1 /\ e[2] <= 12
    /\ e[3] >= 1 /\ e[3] <= DaysInMonth(e[1], e[2])
    /\ e[4] >= 0 /\ e[4] <= 23
    /\ e[5] >= 0 /\ e[5] <= 59
    /\ e[6] >= 0 /\ e[6] <= 59
    /\ e[7] >= 0 /\ e[7] <= 999999

Datetime(e) ==
    [year |-> e[1], month |-> e[2], day |-> e[3], hour |-> e[4],
     minute |-> e[5], second |-> e[6], microsecond |-> e[7]]

\* the day after a date
NextDay(d) ==
    IF d.day < DaysInMonth(d.year, d.month) THEN [d EXCEPT !.day = @ + 1]
    ELSE IF d.month < 12 THEN [d EXCEPT !.day = 1, !.month = @ + 1]
    ELSE [d EXCEPT !.day = 1, !.month = 1, !.year = @ + 1]

\* datetime + timedelta(seconds=delta), for a delta of less than a day
AddSeconds(d, delta) ==
    LET total == d.hour * 3600 + d.minute * 60 + d.second + delta
        sod == total % 86400
        on == IF total >= 86400 THEN NextDay(d) ELSE d
    IN [on EXCEPT !.hour = sod \div 3600,
                  !.minute = (sod % 3600) \div 60,
                  !.second = sod % 60]

\* every two-digit year taken for a year of this century
YearPivotNone(y) == IF y < 100 THEN y + 2000 ELSE y

\* dtutils.py:32-37: YY -> YYYY
YearPivot(y) ==
    IF y < 100
    THEN (IF y >= 89 THEN y + 1900 ELSE y + 2000)
    ELSE y

\* the excess counted over 60
CarryOver60(field, ier) ==
    IF 60 <= field /\ field <= 120 THEN (field - 60) * ier ELSE 0

\* dtutils.py:44-46: the seconds to add for a field of 60..120, which is
\* then set to 59
Carry(field, ier) ==
    IF 60 <= field /\ field <= 120 THEN (field - 59) * ier ELSE 0

Clamp(field) == IF 60 <= field /\ field <= 120 THEN 59 ELSE field

\* validate_epoch: the datetime, or the ValueError of the constructor
validate_epoch(epoch) ==
    LET delta == Carry(epoch[6], 1) + Carry(epoch[5], 60)
        e == [epoch EXCEPT ![1] = YearPivot(@), ![6] = Clamp(@),
                           ![5] = Clamp(@)]
    IN IF ~DatetimeValid(e) THEN [kind |-> "ValueError"]
       ELSE [kind |-> "ok", value |-> AddSeconds(Datetime(e), delta)]

\* the epochs given: years on both sides of the pivot and of 100, days at
\* the end of a month and of a year, minutes and seconds around 60 and 120
Epochs ==
    {<<y, m, d, h, mi, sec, 0>> :
        y \in {0, 88, 89, 99, 100, 1999},
        m \in {2, 12},
        d \in {28, 29, 31},
        h \in {0, 23},
        mi \in {0, 59, 60, 120, 121},
        sec \in {0, 59, 60, 61, 120, 121}}

InitEpoch ==
    /\ ve_in \in Epochs
    /\ ve_out = None
    /\ FetchIdle
    /\ TecIdle
    /\ NavIdle
    /\ DecIdle
    /\ OpenIdle

ValidateEpoch ==
    /\ ve_out = None
    /\ ve_out' = <<validate_epoch(ve_in)>>
    /\ UNCHANGED <<ve_in, fetchVars, tec, navVars, decVars, openVars>>

NextEpoch == ValidateEpoch

SpecEpoch == InitEpoch /\ [][NextEpoch]_vars

\* the four-digit year the pivot gives
PivotedYear(y) ==
    IF y >= 89 /\ y <= 99 THEN 1900 + y
    ELSE IF y >= 0 /\ y <= 88 THEN 2000 + y
    ELSE y

\* the carry of the minutes and seconds goes past the end of the year
PastNewYear(e) ==
    /\ e[2] = 12 /\ e[3] = 31
    /\ e[4] * 3600 + e[5] * 60 + e[6] >= 86400

\* C16: the datetime returned has the year of the pivot: 1989..1999 for a
\* year field of 89..99, 2000..2088 for 0..88, the field itself from 100
\* on (one more where the carry of minutes and seconds passes the end of
\* 31 December).
C16_YearPivot ==
    (ve_out # None /\ ve_out[1].kind = "ok") =>
        ve_out[1].value.year =
            PivotedYear(ve_in[1]) + (IF PastNewYear(ve_in) THEN 1 ELSE 0)

\* year field 89 gave 1989 and month, day and hour are those given
C16_Witness ==
    /\ ve_out # None
    /\ ve_in[1] = 89
    /\ ve_out[1].kind = "ok"
    /\ ve_out[1].value.year = 1989
    /\ ve_out[1].value.day = ve_in[3]

\* the date and hour of an epoch are those of a datetime
DateValid(e) ==
    DatetimeValid([e EXCEPT ![1] = PivotedYear(@), ![5] = 0, ![6] = 0])

\* C17: with the date and hour valid, minutes m and seconds s of 0..120
\* give the instant m minutes and s seconds after the start of the hour;
\* a minutes or seconds field above 120 gives a ValueError.
C17_MinuteSecondCarry ==
    (ve_out # None /\ DateValid(ve_in)) =>
        IF ve_in[5] > 120 \/ ve_in[6] > 120
        THEN ve_out[1].kind = "ValueError"
        ELSE /\ ve_out[1].kind = "ok"
             /\ ve_out[1].value =
                    AddSeconds(
                        Datetime([ve_in EXCEPT ![1] = PivotedYear(@),
                                               ![5] = 0, ![6] = 0]),
                        ve_in[5] * 60 + ve_in[6])

\* seconds 60 at minute 59 of hour 23 on 31 December 1999: the first
\* instant of 2000
C17_Witness ==
    /\ ve_out # None
    /\ ve_in = <<99, 12, 31, 23, 59, 60, 0>>
    /\ ve_out[1].kind = "ok"
    /\ ve_out[1].value =
            [year |-> 2000, month |-> 1, day |-> 1, hour |-> 0,
             minute |-> 0, second |-> 0, microsecond |-> 0]

----------------------------------------------------------------------------
\* claims C14, C18, C19 (specification Spec)

\* C14: a satellite count of an epoch record that differs from the
\* satellites that follow is fatal.  Once a v2 record has listed more or
\* fewer ids than it declares, or a v3 epoch has been followed by fewer or
\* more satellite lines than it declares before the next epoch record,
\* iteration has stopped with an AssertionError (v2) or a ValueError (v3),
\* and the step that met the mismatch yielded nothing.
C14_CountMismatchFatal ==
    mismatch # None =>
        /\ dec_pc = "stopped"
        /\ tec = None
        /\ dec_err = IF reader = ObsFileV2 THEN <<"AssertionError">>
                     ELSE <<"ValueError">>

\* a v2 record that declared a count other than the ids it lists, after a
\* record has been yielded
C14_Witness ==
    /\ reader = ObsFileV2
    /\ mismatch # None
    /\ mismatch[1] = "ids"
    /\ dec_pc = "stopped"
    /\ emitted # <<>>

\* C18: a satellite that is skipped is reported: a pass of the satellite
\* loop that goes on without a record and without an exception has issued
\* a warning.
C18_EverySkipWarned ==
    [][(handled' = handled + 1 /\ emitted' = emitted /\ dec_pc' # "stopped")
            => warned' # None]_vars

\* the system of the i-th listed satellite
ListedSys(i) == SatSys(ListedId(listing[i]))

\* the codes of a system's catalog at a pair of positions
CodesAt(sat_sys, pair) ==
    <<obs_types[sat_sys][pair[1]], obs_types[sat_sys][pair[2]]>>

\* C19: in the v3 decoder, after a satellite of a system other than
\* GLONASS has been passed over (a GLONASS one may have been for its
\* channel), which happens only when resolution fails for its system, no
\* later satellite of the system gets a record; a record yielded carries
\* the codes at the positions kept for its system, and the positions kept
\* for a system never change.
C19_ResolutionSticks ==
    /\ [](reader = ObsFileV3 =>
            /\ \A i, j \in 1 .. handled :
                    (/\ i < j
                     /\ ListedSys(i) # GLO
                     /\ ListedSys(j) = ListedSys(i)
                     /\ ~EmittedFor(i))
                    => ~EmittedFor(j)
            /\ tec # None =>
                    /\ SatSys(tec.satellite) \in DOMAIN obs_indices
                    /\ tec.phase_code =
                        CodesAt(SatSys(tec.satellite),
                                obs_indices[SatSys(tec.satellite)].phase)
                    /\ tec.p_range_code =
                        CodesAt(SatSys(tec.satellite),
                                obs_indices[SatSys(tec.satellite)]
                                    .pseudo_range))
    /\ [][reader = ObsFileV3 =>
            \A sat_sys \in DOMAIN obs_indices :
                /\ sat_sys \in DOMAIN obs_indices'
                /\ obs_indices'[sat_sys] = obs_indices[sat_sys]]_vars

\* two GPS records have been yielded, the second with the L2X phase code
\* that the first resolution chose over L2W
C19_Witness ==
    /\ reader = ObsFileV3
    /\ Len(emitted) = 2
    /\ \A k \in 1 .. 2 : SatSys(emitted[k][2]) = GPS
    /\ GPS \in DOMAIN obs_indices
    /\ obs_indices[GPS].phase[2] = 5
    /\ tec # None
    /\ tec.phase_code[2] = <<"L", 2, "X">>

----------------------------------------------------------------------------
\* claim C21 (specification SpecFetch)

\* the slot's timestamps of t's calendar date
SameDay(table, slot, t) ==
    {ts \in DOMAIN table[slot] : Date(ts) = Date(t)}

\* C21: for a slot of the table with an entry of the query's calendar
\* date, fetch_slot_freq_num returns the channel of an entry of that date,
\* whatever entries the slot has on other dates.
C21_SameDayEntryAnswers ==
    (/\ fetch_in # None
     /\ fetch_in.slot \in DOMAIN fetch_in.table
     /\ SameDay(fetch_in.table, fetch_in.slot, fetch_in.timestamp) # {})
    => /\ fetch_out.kind = "ok"
       /\ \E ts \in SameDay(fetch_in.table, fetch_in.slot,
                            fetch_in.timestamp) :
             fetch_out.freq_num = <<fetch_in.table[fetch_in.slot][ts]>>

----------------------------------------------------------------------------
\* claims C22, C29 (specification SpecTec)

\* C22: for every satellite system, every band pair of BAND_PRIORITY and
\* every GLONASS frequency number of -7..6 the two carrier frequencies
\* exist and differ; for the record at hand, once its phase codes are set
\* neither TEC ends in a division by zero.
C22_CarriersDiffer ==
    /\ \A sat_sys \in Systems, k \in GloFreqNums :
            \A i \in 1 .. Len(BAND_PRIORITY(sat_sys)) :
                LET pair == BAND_PRIORITY(sat_sys)[i]
                    freq == get_freq(<< <<"L", pair[1]>>, <<"L", pair[2]>> >>,
                                     sat_sys, <<k>>)
                IN freq.kind = "ok" /\ freq.f1 # freq.f2
    /\ (tec # None /\ tec.phase_code # <<None, None>>) =>
            LET freq == get_freq(tec.phase_code, SatSys(tec.satellite),
                                 tec.glo_freq_num)
            IN /\ freq.kind = "ok"
               /\ freq.f1 # freq.f2
               /\ phase_tec(tec).kind \in {"None", "value"}
               /\ p_range_tec(tec).kind \in {"None", "value"}

\* a GLONASS record of frequency number -7 on bands 1 and 3 with both TEC
\* values computed
C22_Witness ==
    /\ tec # None
    /\ SatSys(tec.satellite) = GLO
    /\ tec.glo_freq_num = <<-7>>
    /\ tec.phase_code = << <<"L", 1>>, <<"L", 3>> >>
    /\ phase_tec(tec).kind = "value"
    /\ p_range_tec(tec).kind = "value"

\* bit n of a natural number is set
BitSet(v, n) == (v \div (2 ^ n)) % 2 = 1

----------------------------------------------------------------------------
\* rinex.py: the resolvers on their own
\*
\* The two resolvers are applied to catalogs of all kinds, one satellite
\* at a time as the satellite loops of next_tec apply them: the v2
\* resolver fills phase_obs_index and pr_obs_index, the v3 resolver
\* obs_indices.

\* the v2 codes the catalogs are drawn from
V2CodePool ==
    << <<"L", 1>>, <<"L", 2>>, <<"L", 5>>, <<"C", 1>>, <<"C", 2>>,
       <<"C", 5>>, <<"P", 1>>, <<"P", 2>> >>

\* the v3 codes of a system the catalogs are drawn from; L1Z is no GPS
\* code of the channel table
V3CodePool(sat_sys) ==
    IF sat_sys = GPS
    THEN << <<"C", 1, "C">>, <<"L", 1, "C">>, <<"C", 2, "W">>,
            <<"L", 2, "W">>, <<"L", 2, "X">>, <<"C", 5, "Q">>,
            <<"L", 5, "Q">>, <<"L", 1, "Z">> >>
    ELSE << <<"C", 1, "C">>, <<"L", 1, "C">>, <<"C", 2, "P">>,
            <<"L", 2, "P">>, <<"C", 3, "I">>, <<"L", 3, "I">> >>

RECURSIVE SubSeq0(_, _)
\* the codes of a pool at the positions kept, in the pool's order
SubSeq0(pool, kept) ==
    IF pool = <<>> THEN <<>>
    ELSE (IF Len(pool) \in kept THEN <<pool[Len(pool)]>> ELSE <<>>)
         \o SubSeq0(SubSeq(pool, 1, Len(pool) - 1), kept)

\* a list in reverse order
Reversed(list) == [i \in 1 .. Len(list) |-> list[Len(list) + 1 - i]]

\* the non-empty lists drawn from a pool, in descending and in ascending
\* pool order
ListsFrom(pool) ==
    LET down == {SubSeq0(pool, kept) :
                    kept \in SUBSET (1 .. Len(pool)) \ {{}}}
    IN down \cup {Reversed(list) : list \in down}

\* the catalogs given to the resolvers: a v2 list, or the v3 dict of one
\* system
ResolveCatalogs(cls) ==
    IF cls = ObsFileV2 THEN ListsFrom(V2CodePool)
    ELSE UNION {{[s \in {sat_sys} |-> list] :
                    list \in ListsFrom(V3CodePool(sat_sys))} :
                sat_sys \in {GPS, GLO}}

InitResolve ==
    /\ reader \in {ObsFileV2, ObsFileV3}
    /\ obs_types \in ResolveCatalogs(reader)
    /\ dec_pc = "resolve"
    /\ dec_err = None
    /\ lines_read = 0
    /\ epoch_time = None
    /\ epoch_flag = 0
    /\ n_of_sats = 0
    /\ list_of_sats = <<>>
    /\ sat_i = 0
    /\ phase_obs_index = <<>>
    /\ pr_obs_index = <<>>
    /\ obs_indices = <<>>
    /\ warned = None
    /\ listing = <<>>
    /\ handled = 0
    /\ emitted = <<>>
    /\ mismatch = None
    /\ attempts = <<>>
    /\ FetchIdle
    /\ TecIdle
    /\ NavIdle
    /\ OpenIdle
    /\ VeIdle

\* rinex.py:338-376: the v2 satellite loop resolves the system of a
\* satellite; a failure is warned about
ResolveV2 ==
    /\ reader = ObsFileV2
    /\ dec_pc = "resolve"
    /\ \E listed \in ListedSats(ObsFileV2) :
          LET sat_sys == SatSys(V2SatelliteId(listed))
              res == V2Resolve(obs_types, sat_sys, phase_obs_index,
                               pr_obs_index)
          IN /\ list_of_sats' = <<listed>>
             /\ sat_i' = 1
             /\ phase_obs_index' = res.phase_obs_index
             /\ pr_obs_index' = res.pr_obs_index
             /\ warned' = IF res.ok THEN None
                          ELSE <<"Can't find observable", sat_sys>>
    /\ UNCHANGED <<reader, obs_types, dec_pc, dec_err, lines_read,
                   epoch_time, epoch_flag, n_of_sats, obs_indices, histVars,
                   fetchVars, tec, navVars, openVars, veVars>>

\* rinex.py:816-824: the v3 satellite loop resolves the system of a
\* satellite of the catalog; a failure is passed over
ResolveV3 ==
    /\ reader = ObsFileV3
    /\ dec_pc = "resolve"
    /\ \E listed \in ListedSats(ObsFileV3) :
          LET sat_sys == SatSys(V3SatelliteId(listed))
              found == IF sat_sys \in DOMAIN obs_indices
                       THEN {obs_indices[sat_sys]}
                       ELSE indices_according_priority(obs_types, sat_sys)
          IN /\ sat_sys \in DOMAIN obs_types
             /\ list_of_sats' = <<listed>>
             /\ sat_i' = 1
             /\ IF found = {} THEN UNCHANGED obs_indices
                ELSE \E ind \in found :
                        obs_indices' = V3Resolved(obs_indices, sat_sys, ind)
    /\ UNCHANGED <<reader, obs_types, dec_pc, dec_err, lines_read,
                   epoch_time, epoch_flag, n_of_sats, phase_obs_index,
                   pr_obs_index, warned, histVars,
                   fetchVars, tec, navVars, openVars, veVars>>

NextResolve == ResolveV2 \/ ResolveV3

SpecResolve == InitResolve /\ [][NextResolve]_vars

\* claims C23, C24, C27 (specification SpecResolve)

\* the system of the satellite resolved last
LastSys ==
    SatSys(IF reader = ObsFileV2 THEN V2SatelliteId(list_of_sats[1])
           ELSE V3SatelliteId(list_of_sats[1]))

\* the codes of a list
CodesOf(list) == {list[i] : i \in 1 .. Len(list)}

\* the position of a code in a list that holds it
PositionOf(list, code) == CHOOSE i \in 1 .. Len(list) : list[i] = code

\* the candidate of band pair bi and preference pi: two v2 codes
Candidate(sat_sys, obs_priority, bi, pi) ==
    << <<obs_priority[pi][1], BAND_PRIORITY(sat_sys)[bi][1]>>,
       <<obs_priority[pi][2], BAND_PRIORITY(sat_sys)[bi][2]>> >>

Declared(cand) ==
    cand[1] \in CodesOf(obs_types) /\ cand[2] \in CodesOf(obs_types)

\* (bi, pi) is the first declared candidate: band pairs in priority
\* order and, within a band pair, preferences in order
FirstDeclared(sat_sys, obs_priority, bi, pi) ==
    /\ Declared(Candidate(sat_sys, obs_priority, bi, pi))
    /\ \A b \in 1 .. Len(BAND_PRIORITY(sat_sys)),
          q \in 1 .. Len(obs_priority) :
            (b < bi \/ (b = bi /\ q < pi)) =>
                ~Declared(Candidate(sat_sys, obs_priority, b, q))

\* the positions kept for a system are those of its first declared
\* candidate
KeepsFirstDeclared(index, sat_sys, obs_priority) ==
    \E bi \in 1 .. Len(BAND_PRIORITY(sat_sys)),
       pi \in 1 .. Len(obs_priority) :
        /\ FirstDeclared(sat_sys, obs_priority, bi, pi)
        /\ index[sat_sys] =
            <<PositionOf(obs_types,
                         Candidate(sat_sys, obs_priority, bi, pi)[1]),
              PositionOf(obs_types,
                         Candidate(sat_sys, obs_priority, bi, pi)[2])>>

SomeDeclared(sat_sys, obs_priority) ==
    \E bi \in 1 .. Len(BAND_PRIORITY(sat_sys)),
       pi \in 1 .. Len(obs_priority) :
        Declared(Candidate(sat_sys, obs_priority, bi, pi))

\* C23: the v2 decoder keeps for a system the positions of the first
\* fully declared candidate, for phase among the (L, L) candidates and
\* for pseudorange among the (P, P), (C, C), (C, P) candidates, band pair
\* by band pair and within a band pair preference by preference; resolving
\* a system fails, with the warning, exactly when phase or pseudorange has
\* no fully declared candidate.
C23_FirstDeclaredCandidate ==
    (reader = ObsFileV2 /\ dec_pc = "resolve") =>
        /\ \A sat_sys \in DOMAIN phase_obs_index :
                KeepsFirstDeclared(phase_obs_index, sat_sys,
                                   << <<"L", "L">> >>)
        /\ \A sat_sys \in DOMAIN pr_obs_index :
                KeepsFirstDeclared(pr_obs_index, sat_sys,
                    << <<"P", "P">>, <<"C", "C">>, <<"C", "P">> >>)
        /\ list_of_sats # <<>> =>
            LET phase == SomeDeclared(LastSys, << <<"L", "L">> >>)
                pr == SomeDeclared(LastSys,
                        << <<"P", "P">>, <<"C", "C">>, <<"C", "P">> >>)
            IN /\ (LastSys \in DOMAIN phase_obs_index) <=> phase
               /\ (LastSys \in DOMAIN pr_obs_index) <=> (phase /\ pr)
               /\ (warned # None) <=> ~(phase /\ pr)

\* GPS resolved on a catalog with P1 but no P2, and with C1 and C2: the
\* pseudorange pair is C1, C2, the second preference of the first band pair
C23_Witness ==
    /\ reader = ObsFileV2
    /\ dec_pc = "resolve"
    /\ GPS \in DOMAIN pr_obs_index
    /\ {<<"P", 1>>, <<"C", 1>>, <<"C", 2>>} \subseteq CodesOf(obs_types)
    /\ <<"P", 2>> \notin CodesOf(obs_types)
    /\ obs_types[pr_obs_index[GPS][1]] = <<"C", 1>>
    /\ obs_types[pr_obs_index[GPS][2]] = <<"C", 2>>

\* the positions of a v3 list holding a code of the kind on the band with
\* a channel of the system's table
Available(list, sat_sys, letter, band) ==
    {i \in 1 .. Len(list) :
        /\ list[i][1] = letter
        /\ list[i][2] = band
        /\ list[i][3] \in V3Channels(sat_sys, band)}

\* band pair bi is the first of the priority list with both bands
\* available
FirstAvailable(list, sat_sys, letter, bi) ==
    LET both(b) ==
            /\ Available(list, sat_sys, letter,
                         BAND_PRIORITY(sat_sys)[b][1]) # {}
            /\ Available(list, sat_sys, letter,
                         BAND_PRIORITY(sat_sys)[b][2]) # {}
    IN both(bi) /\ \A b \in 1 .. bi - 1 : ~both(b)

\* a position pair lies on the first available band pair
OnFirstAvailable(list, sat_sys, letter, pair) ==
    \E bi \in 1 .. Len(BAND_PRIORITY(sat_sys)) :
        /\ FirstAvailable(list, sat_sys, letter, bi)
        /\ pair[1] \in Available(list, sat_sys, letter,
                                 BAND_PRIORITY(sat_sys)[bi][1])
        /\ pair[2] \in Available(list, sat_sys, letter,
                                 BAND_PRIORITY(sat_sys)[bi][2])

SomeAvailable(list, sat_sys, letter) ==
    \E bi \in 1 .. Len(BAND_PRIORITY(sat_sys)) :
        FirstAvailable(list, sat_sys, letter, bi)

\* C24: the positions the v3 decoder keeps for a system are, for phase
\* ('L') and for pseudorange ('C') separately, those of one declared code
\* of the system's channel table on each band of the first band pair of
\* the priority list with both bands available; resolving a system fails
\* exactly when phase or pseudorange has no such band pair.
C24_FirstAvailableBandPair ==
    (reader = ObsFileV3 /\ dec_pc = "resolve") =>
        /\ \A sat_sys \in DOMAIN obs_indices :
            /\ OnFirstAvailable(obs_types[sat_sys], sat_sys, "L",
                                obs_indices[sat_sys].phase)
            /\ OnFirstAvailable(obs_types[sat_sys], sat_sys, "C",
                                obs_indices[sat_sys].pseudo_range)
        /\ list_of_sats # <<>> =>
            ((LastSys \in DOMAIN obs_indices) <=>
                (/\ SomeAvailable(obs_types[LastSys], LastSys, "L")
                 /\ SomeAvailable(obs_types[LastSys], LastSys, "C")))

\* GPS resolved on a catalog without an L2 code and with L1Z, which is no
\* code of the table, before L1C: phase is L1C and L5Q of the second band
\* pair, pseudorange C1C and C2W of the first
C24_Witness ==
    /\ reader = ObsFileV3
    /\ dec_pc = "resolve"
    /\ GPS \in DOMAIN obs_indices
    /\ obs_types[GPS][1] = <<"L", 1, "Z">>
    /\ obs_types[GPS][obs_indices[GPS].phase[1]] = <<"L", 1, "C">>
    /\ obs_types[GPS][obs_indices[GPS].phase[2]] = <<"L", 5, "Q">>
    /\ obs_types[GPS][obs_indices[GPS].pseudo_range[2]] = <<"C", 2, "W">>

\* the bands of the two catalog codes at a position pair
BandsAt(list, pair) == <<list[pair[1]][2], list[pair[2]][2]>>

\* C27: the pseudorange codes a decoder selects for a system lie on the
\* band pair of the phase codes it selects for that system.
C27_SameBandPair ==
    dec_pc = "resolve" =>
        /\ reader = ObsFileV2 =>
            \A sat_sys \in DOMAIN phase_obs_index \cap DOMAIN pr_obs_index :
                BandsAt(obs_types, pr_obs_index[sat_sys])
                    = BandsAt(obs_types, phase_obs_index[sat_sys])
        /\ reader = ObsFileV3 =>
            \A sat_sys \in DOMAIN obs_indices :
                BandsAt(obs_types[sat_sys], obs_indices[sat_sys].pseudo_range)
                    = BandsAt(obs_types[sat_sys], obs_indices[sat_sys].phase)

\* ---------------------------------------- claim C28 (specification SpecNav)
\* C28: the table returned by collect_freq_nums has, for each slot, as many
\* entries as distinct channels were seen for the slot, and every channel
\* seen is the value of one of them.
C28_NoChannelLost ==
    nav_pc = "done" =>
        \A slot \in {nav_msgs[i][1] : i \in 1 .. Len(nav_msgs)} :
            /\ slot \in DOMAIN nav_out[1]
            /\ Cardinality(DOMAIN nav_out[1][slot])
                    = Cardinality(SeenFreqNums(nav_msgs, slot))
            /\ \A f_num \in SeenFreqNums(nav_msgs, slot) :
                \E ts \in DOMAIN nav_out[1][slot] :
                    nav_out[1][slot][ts] = f_num

\* ------------------------------------ claims C25, C26, C30 (specification Spec)
\* a pass of the satellite loop that read all the lines of its satellite
SatellitePass == handled' = handled + 1

\* a v2 epoch record read to its end, n being the count it declares
V2HeaderRead(n) ==
    /\ reader = ObsFileV2
    /\ dec_pc = "epoch"
    /\ \/ /\ dec_pc' \in {"sats", "epoch"}
          /\ epoch_time' # None
          /\ n = n_of_sats'
       \/ /\ dec_err' = <<"AssertionError">>
          /\ n = mismatch'[2]

C25_ContinuationRead ==
    /\ reader = ObsFileV2
    /\ dec_err = <<"AssertionError">>
    /\ mismatch # None
    /\ mismatch[2] = SatsPerRow + 1
    /\ lines_read = 2

\* the system of the satellite a v3 pass has just listed
PassSys == SatSys(V3SatelliteId(listing'[Len(listing')][2]))

C30_PullingTerminates ==
    /\ [][\/ lines_read' > lines_read
          \/ dec_pc' = "stopped"
          \/ dec_pc = "event" /\ n_of_sats = 0]_vars
    /\ [](/\ lines_read <= MaxLines
          /\ Len(emitted) <= handled
          /\ handled <= lines_read)
    /\ <>(dec_pc = "stopped")

\* the stream ended inside the lines of an event record, after an epoch
\* record and its satellite, for which a record was emitted
C30_Witness ==
    /\ dec_pc = "stopped"
    /\ dec_err \in {<<"StopIteration">>, <<"RuntimeError">>}
    /\ IsEvent(epoch_flag)
    /\ n_of_sats = MaxEventCount
    /\ Len(emitted) = 1
    /\ lines_read = Len(emitted) + 3

====
